---- MODULE Spec2Model ----
(***************************************************************************)
(* The autopilot job queue (app/job_queue.py) driven by worker ticks       *)
(* (app/job_worker.py) and by the job endpoints of the API (app/main.py).  *)
(*                                                                         *)
(* The database is the shared state.  Every SQL statement is one atomic    *)
(* step (READ COMMITTED): a SELECT reads the rows as they are, an UPDATE   *)
(* ... WHERE re-checks its condition on the current row.  An ORM object is *)
(* a snapshot of the row taken when it was loaded; Session.commit() writes *)
(* with "UPDATE ... WHERE id = ?" exactly the columns whose assigned value *)
(* differs from the snapshot.                                              *)
(***************************************************************************)
EXTENDS Integers, Sequences, FiniteSets, TLC

\* ---------------------------------------------------------------- bounds
MaxJobs == 2
NumWorkers == 2
MaxTime == 1
MaxAttemptsIn == 2
MaxItemsIn == 1
MaxTicks == 3
MaxTicksFifo == 2
MaxWorkItems == 2
MaxApprovals == 2
NumCallers == 2
NumProjects == 2
MaxRetries == 2
MaxAgents == 2
MaxPieces == 6
MaxObjectiveItems == 6
MaxObjectives == 1
MaxCommits == 2
NumBranches == 1
NumCycles == 2

\* ------------------------------------------------------ program constants
ErrBound == 3000
DefaultErrLen == 20
StaleErrLen == 56
DefaultPriority == 3
PriorityCap == 5

NULL == -1
\* finished_at and canceled_at are kept as NULL or SET.  NOW is the value of
\* _now() being assigned: a new timestamp, different from every stored one.
SET == 1
NOW == 2
Workers == 1..NumWorkers
JobIds == 1..MaxJobs
StaleTimeouts == {0, 1}
GivenLens == {0, 7, ErrBound + 1}

Min(a, b) == IF a <= b THEN a ELSE b

JobStatus == {"queued", "running", "completed", "failed", "canceled"}

\* A text is represented by where it comes from and its length in characters.
EmptyText == [src |-> "empty", len |-> 0]
GivenText(n) == [src |-> IF n = 0 THEN "empty" ELSE "given", len |-> n]
DefaultErr == [src |-> "default", len |-> DefaultErrLen]
StaleErr == [src |-> "stale", len |-> StaleErrLen]

\* text[:n]
Cut(text, n) == [text EXCEPT !.len = Min(text.len, n)]

\* (error_message or "Job execution failed")[:3000]
safe_error(error_message) ==
    Cut(IF error_message.len = 0 THEN DefaultErr ELSE error_message, ErrBound)

\* (f"Recovered stale running job ... ({int(T)}s)")[:3000]
stale_error == Cut(StaleErr, ErrBound)

\* json.dumps of a list of ids: the JSON array text is represented by the
\* array it encodes ("[]" is the empty sequence).
json_dumps(ids) == ids

\* The merged-PR id lists a cycle with n created PRs can return.
RECURSIVE Iota(_)
Iota(n) == IF n = 0 THEN <<>> ELSE Append(Iota(n - 1), n)
MergedLists(n) == {Iota(m) : m \in 0..n}

VARIABLES
    jobs,       \* the autopilot_jobs table: a sequence of rows, id = index
    clock,      \* the wall clock read by _now()
    pc,         \* position of each worker in run_once
    cand,       \* the job id a worker selected / claimed (NULL if none)
    seen,       \* the worker session's loaded copy of that job's row
    recovered,  \* rows recovered in this tick (requeued + failed)
    apc,        \* position of the API request in cancel_job / retry_job
    ajob,       \* job id of the API request
    ticks,      \* worker ticks started so far, where a specification counts them
    hard_failed, \* jobs failed by mark_failed(retryable=False), not retried since
    claimed     \* per job: claims returned since it last became queued

\* One autopilot cycle of one project (app/orchestration.py) and its caller.
VARIABLES
    policy,         \* the project's AutomationPolicy row
    agents,         \* roles that have an active agent in the project
    provider_name,  \* the provider the cycle runs with
    cycle_max_items, \* the max_items argument of run_autopilot_cycle
    db,             \* the session's view of the project's rows
    committed,      \* the rows as committed: what another session reads
    cpc,            \* position of the cycle and of its caller
    backlog_items,  \* the work item ids the cycle selected, in order
    item_idx,       \* position of the for loop in backlog_items
    cycle_created_prs,    \* the cycle's list of created pull request ids
    cycle_merged_pr_ids,  \* the cycle's list of merged pull request ids
    merge_calls,    \* calls of GitWorkspaceManager.merge_branch made
    cycle_report    \* what the caller reported (job row or response)

cycle_vars == <<policy, agents, provider_name, cycle_max_items, db, committed, cpc,
                backlog_items, item_idx, cycle_created_prs,
                cycle_merged_pr_ids,
                merge_calls, cycle_report>>

\* Git sequences of several callers on several projects (app/git_ops.py).
VARIABLES
    flock,          \* the locks held: lock file and holder
    gpc,            \* position of each caller in a git sequence
    gcall           \* per caller: the sequence it runs and on which project

git_vars == <<flock, gpc, gcall>>

\* One call of the git command wrapper (GitWorkspaceManager._run).
VARIABLES
    run_pc,         \* position of the call: in the for loop, returned, raised
    run_args,       \* command_retries of the manager and check of the call
    attempt,        \* executions of the command made by the call
    run_out         \* what the last execution of the command gave

run_vars == <<run_pc, run_args, attempt, run_out>>

\* The agents, the policy and the work items of one project, as bootstrap and
\* create_work_items_from_objective leave them (app/orchestration.py).
VARIABLES
    roster,         \* the agents table of the project, in creation order
    project_policy, \* the project's rows in automation_policies
    work_rows,      \* the work items created from objectives
    project_events, \* the event log rows of the two operations
    last_op         \* the last operation on the project and what it returned

project_vars == <<roster, project_policy, work_rows, project_events, last_op>>

\* The git workspace of one project (app/git_ops.py).
VARIABLES
    repo,           \* the checked out branch, the branches, the files written
    ws_ret          \* the last call on the workspace and how it ended

ws_vars == <<repo, ws_ret>>

\* Cycles of several sessions on the rows of one project
\* (app/orchestration.py, run by two workers or by a worker and the API).
VARIABLES
    cc_table,       \* the committed work items and pull requests
    cc_sessions     \* per session: its cycle's position, list and pending rows

cc_vars == <<cc_table, cc_sessions>>

\* the variables of the operations that are specified on their own
uvars == <<run_vars, project_vars, ws_vars, cc_vars>>

xvars == <<cycle_vars, git_vars, uvars>>

vars == <<jobs, clock, pc, cand, seen, recovered,
          apc, ajob, ticks, hard_failed, claimed, cycle_vars, git_vars, uvars>>

\* the job queue's variables
qvars == <<jobs, clock, pc, cand, seen, recovered,
           apc, ajob, ticks, hard_failed, claimed>>

wvars == <<pc, cand, seen, recovered>>
avars == <<apc, ajob>>

NoRow == [status |-> "none"]

\* models.AutopilotJob with the column defaults
NewJob(max_items, max_attempts, now) ==
    [status |-> "queued",
     max_items |-> max_items,
     attempts |-> 0,
     max_attempts |-> max_attempts,
     worker_id |-> NULL,
     started_at |-> NULL,
     finished_at |-> NULL,
     canceled_at |-> NULL,
     processed_items |-> 0,
     created_prs |-> 0,
     merged_prs |-> 0,
     merged_pr_ids_json |-> json_dumps(<<>>),
     error_message |-> EmptyText,
     created_at |-> now]

Ids == DOMAIN jobs

\* Session.commit() of a modified ORM object: only the columns whose value
\* differs from the loaded one are in the UPDATE; the row is found by id.
\* `assigned` holds the attribute assignments, `loaded` the values the object
\* was loaded with (an attribute it does not hold counts as changed: only
\* the timestamps set to _now() are compared that way).
Stored(f, v) == IF f \in {"finished_at", "canceled_at"} /\ v = NOW THEN SET ELSE v

Changed(loaded, assigned) ==
    {f \in DOMAIN assigned : f \notin DOMAIN loaded \/ assigned[f] # loaded[f]}

Flush(row, loaded, assigned) ==
    [f \in DOMAIN row |->
        IF f \in Changed(loaded, assigned) THEN Stored(f, assigned[f]) ELSE row[f]]

\* the columns of a claimed job that run_once and mark_failed read or
\* compare: the session's copy of the row
LoadedCols == {"status", "attempts", "max_attempts", "max_items", "worker_id", "error_message"}
Loaded(row) == [f \in LoadedCols |-> row[f]]

\* per-job count of claims since the job last entered queued
Claimed(newJobs, got) ==
    [j \in DOMAIN newJobs |->
        IF j \notin Ids THEN 0
        ELSE IF newJobs[j].status = "queued" /\ jobs[j].status # "queued" THEN 0
        ELSE IF j = got THEN Min(claimed[j] + 1, 2)
        ELSE claimed[j]]

\* no job, every worker at the head of its loop, no request in progress
InitQueue ==
    /\ jobs = <<>>
    /\ clock = 0
    /\ pc = [w \in Workers |-> "idle"]
    /\ cand = [w \in Workers |-> NULL]
    /\ seen = [w \in Workers |-> NoRow]
    /\ recovered = [w \in Workers |-> 0]
    /\ apc = "idle"
    /\ ajob = NULL
    /\ ticks = 0
    /\ hard_failed = {}
    /\ claimed = <<>>

NoAgent == "none"
Roles == {"coder", "reviewer", "tester"}
Providers == {"rule_based", "openai"}
WorkItemStatus == {"backlog", "in_progress", "review", "done"}
Priorities == {1, DefaultPriority}

\* models.AutomationPolicy with the column defaults
DefaultPolicy ==
    [auto_triage |-> TRUE,
     auto_assign |-> TRUE,
     auto_review |-> TRUE,
     auto_merge |-> TRUE,
     min_review_approvals |-> 1,
     require_test_pass |-> TRUE]

\* the tables of one project, without rows
NoRows ==
    [work_items |-> <<>>,
     agent_runs |-> <<>>,
     pull_requests |-> <<>>,
     reviews |-> <<>>,
     events |-> <<>>]

NoReport == [kind |-> "none", processed_items |-> 0, created_prs |-> 0, merged_prs |-> 0]

\* the cycle's own state before run_autopilot_cycle is called
CycleIdle ==
    /\ cpc = "idle"
    /\ backlog_items = <<>>
    /\ item_idx = 1
    /\ cycle_created_prs = <<>>
    /\ cycle_merged_pr_ids = <<>>
    /\ merge_calls = {}
    /\ cycle_report = NoReport

\* a project without work items, on which no cycle is run
NoCycle ==
    /\ policy = DefaultPolicy
    /\ agents = {}
    /\ provider_name = "rule_based"
    /\ cycle_max_items = 1
    /\ db = NoRows
    /\ committed = NoRows
    /\ CycleIdle

GitCallers == 1..NumCallers
ProjectIds == 1..NumProjects
GitOps == {"prepare_workspace", "commit_agent_change", "merge_branch"}
NoCall == [project_id |-> 0, op |-> "none", raised |-> FALSE]

\* no git sequence runs and no lock is held
NoGit ==
    /\ flock = {}
    /\ gpc = [c \in GitCallers |-> "idle"]
    /\ gcall = [c \in GitCallers |-> NoCall]

NoOutcome == [kind |-> "none", stderr |-> <<>>, stdout |-> <<>>]

\* no command is being run
NoRun ==
    /\ run_pc = "idle"
    /\ run_args = [command_retries |-> 0, check |-> TRUE]
    /\ attempt = 0
    /\ run_out = NoOutcome

NoPolicy == <<>>

\* an operation on the project and what it returned; for an objective also
\* max_work_items and the auto_triage it ran with
Returned(op, ret, max_work_items, auto_triage) ==
    [op |-> op, ret |-> ret, max_work_items |-> max_work_items,
     auto_triage |-> auto_triage]
NoOp == Returned("none", <<>>, 0, TRUE)

\* a project as POST /projects creates it: no agents, the default policy
NoProject ==
    /\ roster = <<>>
    /\ project_policy = <<DefaultPolicy>>
    /\ work_rows = <<>>
    /\ project_events = <<>>
    /\ last_op = NoOp

\* The default branch is branch 0 and the branch of work item i is branch i.
\* A branch is the set of the commits it contains; a branch that does not
\* exist contains none.  Commit 0 is the first commit of the repository and
\* RemoteCommit a commit that another clone pushed to origin.
DefaultBranch == 0
Branches == 0..MaxWorkItems
RemoteCommit == -1

\* the workspace directory, workspace_root / "project-<id>", resolved
WorkspacePath == <<"workspaces", "project">>

\* a clone of a repository with one commit, on the default branch
ClonedRepo ==
    [head |-> DefaultBranch,
     refs |-> [b \in Branches |-> IF b = DefaultBranch THEN {0} ELSE {}],
     written |-> {},
     next |-> 1]

NoChange == [kind |-> "none", paths |-> {}]
NoWsCall == [op |-> "none", branch_name |-> 0, change |-> NoChange,
             result |-> "none", wrote |-> {}, commits |-> 0]

\* no call was made on the workspace
NoWorkspace ==
    /\ repo = ClonedRepo
    /\ ws_ret = NoWsCall

Cycles == 1..NumCycles

\* a session outside a cycle: nothing selected, nothing pending
NoSession == [pc |-> "idle", selected |-> <<>>, idx |-> 1,
              items |-> <<>>, prs |-> <<>>]

\* no session runs a cycle, on a project without work items
NoConcurrent ==
    /\ cc_table = [work_items |-> <<>>, pull_requests |-> <<>>]
    /\ cc_sessions = [c \in Cycles |-> NoSession]

\* none of the operations specified on their own is called
NoUnit ==
    /\ NoRun
    /\ NoProject
    /\ NoWorkspace
    /\ NoConcurrent

Init ==
    /\ InitQueue
    /\ NoCycle
    /\ NoGit
    /\ NoUnit

\* time passes
Tick ==
    /\ clock < MaxTime
    /\ clock' = clock + 1
    /\ UNCHANGED <<jobs, ticks, hard_failed, claimed>>
    /\ UNCHANGED wvars
    /\ UNCHANGED avars
    /\ UNCHANGED xvars

\* ------------------------------------------------------------ API requests

\* the early return leaves out failed
cancel_noop_nofailed(rows, j) == rows[j].status \in {"completed", "canceled"}

\* job.status in {completed, failed, canceled}
cancel_noop(rows, j) == rows[j].status \in {"completed", "failed", "canceled"}

\* the UPDATE matches the row whatever its status
retry_where_any(row) == row.status \in JobStatus

\* status IN (failed, canceled)
retry_where(row) == row.status \in {"failed", "canceled"}

\* enqueue_job: INSERT of a new row with the column defaults
enqueue_job(max_items, max_attempts) ==
    /\ jobs' = Append(jobs, NewJob(max_items, max_attempts, clock))
    /\ claimed' = Append(claimed, 0)
    /\ UNCHANGED <<clock, ticks, hard_failed>>
    /\ UNCHANGED wvars
    /\ UNCHANGED avars
    /\ UNCHANGED xvars

\* cancel_job, lines 69-74: get_job and the two early returns
cancel_job_read(j) ==
    /\ apc = "idle"
    /\ IF j \notin Ids \/ cancel_noop(jobs, j)
         THEN UNCHANGED <<apc, ajob>>
         ELSE /\ apc' = "cancel_write"
              /\ ajob' = j
    /\ UNCHANGED <<jobs, clock, ticks, hard_failed, claimed>>
    /\ UNCHANGED wvars
    /\ UNCHANGED xvars

cancel_assign ==
    [status |-> "canceled", canceled_at |-> NOW, finished_at |-> NOW]

\* cancel_job, lines 76-83: the assignments and the commit.  The loaded
\* status is queued or running and both timestamps are new, so all three
\* columns are written.
cancel_job_write ==
    /\ apc = "cancel_write"
    /\ LET newJobs == [jobs EXCEPT ![ajob] = Flush(@, NoRow, cancel_assign)]
       IN /\ jobs' = newJobs
          /\ claimed' = Claimed(newJobs, NULL)
    /\ apc' = "idle"
    /\ ajob' = NULL
    /\ UNCHANGED <<clock, ticks, hard_failed>>
    /\ UNCHANGED wvars
    /\ UNCHANGED xvars

\* retry_job, lines 86-91: get_job and the status check (raises ValueError)
retry_job_read(j) ==
    /\ apc = "idle"
    /\ IF j \notin Ids \/ ~retry_where(jobs[j])
         THEN UNCHANGED <<apc, ajob>>
         ELSE /\ apc' = "retry_update"
              /\ ajob' = j
    /\ UNCHANGED <<jobs, clock, ticks, hard_failed, claimed>>
    /\ UNCHANGED wvars
    /\ UNCHANGED xvars

\* the UPDATE leaves attempts as it is
retry_values_keepattempts(row) ==
    [row EXCEPT !.status = "queued",
                !.worker_id = NULL,
                !.started_at = NULL,
                !.finished_at = NULL,
                !.canceled_at = NULL,
                !.processed_items = 0,
                !.created_prs = 0,
                !.merged_prs = 0,
                !.merged_pr_ids_json = json_dumps(<<>>),
                !.error_message = EmptyText]

retry_values(row) ==
    [row EXCEPT !.status = "queued",
                !.attempts = 0,
                !.worker_id = NULL,
                !.started_at = NULL,
                !.finished_at = NULL,
                !.canceled_at = NULL,
                !.processed_items = 0,
                !.created_prs = 0,
                !.merged_prs = 0,
                !.merged_pr_ids_json = json_dumps(<<>>),
                !.error_message = EmptyText]

\* rowcount of the conditional UPDATE on the row with the request's id
retry_rowcount(row) == IF retry_where(row) THEN 1 ELSE 0

\* retry_job, lines 93-123: the conditional UPDATE and its rowcount
\* (rowcount 0 raises ValueError and changes nothing)
retry_job_update ==
    /\ apc = "retry_update"
    /\ IF retry_rowcount(jobs[ajob]) # 0
         THEN LET newJobs == [jobs EXCEPT ![ajob] = retry_values(@)]
              IN /\ jobs' = newJobs
                 /\ claimed' = Claimed(newJobs, NULL)
                 /\ hard_failed' = hard_failed \ {ajob}
         ELSE UNCHANGED <<jobs, claimed, hard_failed>>
    /\ apc' = "idle"
    /\ ajob' = NULL
    /\ UNCHANGED <<clock, ticks>>
    /\ UNCHANGED wvars
    /\ UNCHANGED xvars

\* ------------------------------------------------------------ worker tick

\* started_at < threshold
stale_where_strict(row, threshold) ==
    /\ row.status = "running"
    /\ row.started_at # NULL
    /\ row.started_at < threshold

\* status = running AND started_at IS NOT NULL AND started_at <= threshold
stale_where(row, threshold) ==
    /\ row.status = "running"
    /\ row.started_at # NULL
    /\ row.started_at <= threshold

requeue_where(row, threshold) ==
    stale_where(row, threshold) /\ row.attempts < row.max_attempts

fail_where(row, threshold) ==
    stale_where(row, threshold) /\ row.attempts >= row.max_attempts

\* the requeue leaves worker_id as it is
requeue_values_keepworker(row) ==
    [row EXCEPT !.status = "queued",
                !.started_at = NULL,
                !.finished_at = NULL,
                !.error_message = stale_error]

requeue_values(row) ==
    [row EXCEPT !.status = "queued",
                !.worker_id = NULL,
                !.started_at = NULL,
                !.finished_at = NULL,
                !.error_message = stale_error]

fail_values(row) ==
    [row EXCEPT !.status = "failed",
                !.worker_id = NULL,
                !.finished_at = SET,
                !.error_message = stale_error]

\* the first UPDATE alone: a stale job that used up its attempts is left
\* running
recover_rows_requeue_only(rows, threshold) ==
    [j \in DOMAIN rows |->
        IF requeue_where(rows[j], threshold) THEN requeue_values(rows[j])
        ELSE rows[j]]

\* the table after the two UPDATE statements of recover_stale_running_jobs
recover_rows(rows, threshold) ==
    [j \in DOMAIN rows |->
        IF requeue_where(rows[j], threshold) THEN requeue_values(rows[j])
        ELSE IF fail_where(rows[j], threshold) THEN fail_values(rows[j])
        ELSE rows[j]]

\* requeued_count alone
recover_count_requeued(rows, threshold) ==
    Cardinality({j \in DOMAIN rows : requeue_where(rows[j], threshold)})

\* requeued_count + failed_count
recover_count(rows, threshold) ==
    Cardinality({j \in DOMAIN rows : requeue_where(rows[j], threshold)})
    + Cardinality({j \in DOMAIN rows : fail_where(rows[j], threshold)})

\* run_once line 66: recover_stale_running_jobs(stale_timeout_sec).  The rows
\* the first UPDATE changes stay locked until the commit and no row can
\* become stale between the two statements, so the two UPDATEs and the
\* commit take effect together.
recover_stale_running_jobs(w, stale_timeout_sec) ==
    /\ pc[w] = "idle"
    /\ IF stale_timeout_sec <= 0
         THEN /\ recovered' = [recovered EXCEPT ![w] = 0]
              /\ UNCHANGED <<jobs, claimed>>
         ELSE LET now == clock
                  threshold == now - stale_timeout_sec
                  newJobs == recover_rows(jobs, threshold)
              IN /\ jobs' = newJobs
                 /\ claimed' = Claimed(newJobs, NULL)
                 /\ recovered' = [recovered EXCEPT ![w] = recover_count(jobs, threshold)]
    /\ pc' = [pc EXCEPT ![w] = "claim_select"]
    /\ UNCHANGED <<clock, hard_failed, cand, seen>>
    /\ UNCHANGED avars
    /\ UNCHANGED xvars

Queued == {j \in Ids : jobs[j].status = "queued"}

\* ORDER BY created_at DESC LIMIT 1
Oldest_desc(S) == {j \in S : \A k \in S : jobs[j].created_at >= jobs[k].created_at}

\* ORDER BY created_at ASC LIMIT 1 over the queued rows
Oldest(S) == {j \in S : \A k \in S : jobs[j].created_at <= jobs[k].created_at}

\* the session is closed and the worker is at the head of its loop
EndTick(w) ==
    /\ pc' = [pc EXCEPT ![w] = "idle"]
    /\ cand' = [cand EXCEPT ![w] = NULL]
    /\ seen' = [seen EXCEPT ![w] = NoRow]
    /\ recovered' = [recovered EXCEPT ![w] = 0]

\* the tick returns true whether or not it did anything
processed_always(job_claimed, recovered_count) == TRUE

\* the value run_once returns: True after a claim (lines 80, 86, 93, 101),
\* recovered > 0 when claim_next_job returned none (line 71)
processed(job_claimed, recovered_count) == job_claimed \/ recovered_count > 0

\* run_once returns and _run_loop goes on (lines 104-109): after a tick that
\* processed something it starts the next tick at once (time.sleep(0.05)),
\* otherwise it waits poll_interval_sec on the stop event.
run_once_returns(w, job_claimed) ==
    /\ pc' = [pc EXCEPT ![w] = IF processed(job_claimed, recovered[w])
                                 THEN "idle" ELSE "waiting"]
    /\ cand' = [cand EXCEPT ![w] = NULL]
    /\ seen' = [seen EXCEPT ![w] = NoRow]
    /\ recovered' = [recovered EXCEPT ![w] = 0]

\* _run_loop line 107: the wait of poll_interval_sec is over
poll_wait(w) ==
    /\ pc[w] = "waiting"
    /\ pc' = [pc EXCEPT ![w] = "idle"]
    /\ UNCHANGED <<cand, seen, recovered>>
    /\ UNCHANGED <<jobs, clock, ticks, hard_failed, claimed>>
    /\ UNCHANGED avars
    /\ UNCHANGED xvars

\* claim_next_job, lines 181-188: select the candidate
claim_select(w) ==
    /\ pc[w] = "claim_select"
    /\ IF Queued = {}
         THEN run_once_returns(w, FALSE)
         ELSE /\ \E j \in Oldest(Queued) : cand' = [cand EXCEPT ![w] = j]
              /\ pc' = [pc EXCEPT ![w] = "claim_update"]
              /\ UNCHANGED <<seen, recovered>>
    /\ UNCHANGED <<jobs, clock, ticks, hard_failed, claimed>>
    /\ UNCHANGED avars
    /\ UNCHANGED xvars

\* UPDATE ... WHERE id = candidate.id only
claim_where_nostatus(row) == row.status \in JobStatus

claim_where(row) == row.status = "queued"

\* the UPDATE sets attempts to the value it read, without the increment
claim_values_noincrement(row, worker_id, now) ==
    [row EXCEPT !.status = "running",
                !.worker_id = worker_id,
                !.started_at = now,
                !.error_message = EmptyText]

claim_values(row, worker_id, now) ==
    [row EXCEPT !.status = "running",
                !.attempts = @ + 1,
                !.worker_id = worker_id,
                !.started_at = now,
                !.error_message = EmptyText]

\* claim_next_job, lines 190-212: the conditional UPDATE and its rowcount
claim_update(w) ==
    /\ pc[w] = "claim_update"
    /\ IF claim_where(jobs[cand[w]])
         THEN LET newJobs == [jobs EXCEPT ![cand[w]] = claim_values(@, w, clock)]
              IN /\ jobs' = newJobs
                 /\ claimed' = Claimed(newJobs, cand[w])
                 /\ seen' = [seen EXCEPT ![w] = Loaded(newJobs[cand[w]])]
                 /\ pc' = [pc EXCEPT ![w] = "execute"]
                 /\ UNCHANGED <<cand, recovered>>
         ELSE /\ run_once_returns(w, FALSE)
              /\ UNCHANGED <<jobs, claimed>>
    /\ UNCHANGED <<clock, ticks, hard_failed>>
    /\ UNCHANGED avars
    /\ UNCHANGED xvars

should_retry(job, retryable) ==
    retryable /\ job.attempts < job.max_attempts /\ job.status # "canceled"

mark_failed_assign(job, error_message, retryable) ==
    IF should_retry(job, retryable)
    THEN [status |-> "queued",
          worker_id |-> NULL,
          error_message |-> safe_error(error_message)]
    ELSE [status |-> "failed",
          finished_at |-> NOW,
          error_message |-> safe_error(error_message)]

\* mark_failed as run_once calls it (lines 73-86 with retryable = FALSE: the
\* project is missing or get_provider raised; lines 89-92 with retryable =
\* TRUE: run_autopilot_cycle raised before its commit).  db.get returns the
\* object the session loaded when the job was claimed (nothing expired it
\* since), so the decisions are taken on `seen` and the commit writes the
\* columns that differ from it.
mark_failed(w, error_message, retryable) ==
    /\ pc[w] = "execute"
    /\ LET new == mark_failed_assign(seen[w], error_message, retryable)
           newJobs == [jobs EXCEPT ![cand[w]] = Flush(@, seen[w], new)]
       IN /\ jobs' = newJobs
          /\ claimed' = Claimed(newJobs, NULL)
    /\ hard_failed' = IF retryable THEN hard_failed ELSE hard_failed \cup {cand[w]}
    /\ run_once_returns(w, TRUE)
    /\ UNCHANGED <<clock, ticks>>
    /\ UNCHANGED avars
    /\ UNCHANGED xvars

mark_completed_assign(processed_items, created_prs, merged_pr_ids) ==
    [status |-> "completed",
     processed_items |-> processed_items,
     created_prs |-> created_prs,
     merged_prs |-> Len(merged_pr_ids),
     merged_pr_ids_json |-> json_dumps(merged_pr_ids),
     finished_at |-> NOW,
     error_message |-> EmptyText]

\* mark_completed as run_once calls it (lines 95-100) after the cycle
\* returned n pull requests.  The cycle's commit expired the session's
\* objects, so db.get loads the row again; the load, the assignments and the
\* commit are taken as one step.
mark_completed(w, n, merged_pr_ids) ==
    /\ pc[w] = "execute"
    /\ n <= seen[w].max_items
    /\ Len(merged_pr_ids) <= n
    /\ LET loaded == jobs[cand[w]]
           new == mark_completed_assign(n, n, merged_pr_ids)
           newJobs == [jobs EXCEPT ![cand[w]] = Flush(@, loaded, new)]
       IN /\ jobs' = newJobs
          /\ claimed' = Claimed(newJobs, NULL)
    /\ run_once_returns(w, TRUE)
    /\ UNCHANGED <<clock, ticks, hard_failed>>
    /\ UNCHANGED avars
    /\ UNCHANGED xvars

\* what run_once finds after a successful claim
Outcomes == {"no_project", "unknown_provider", "cycle_raised", "cycle_returned"}

\* an unknown provider is reported like a failed cycle
retryable_of_lenient(outcome) == outcome \in {"unknown_provider", "cycle_raised"}

\* the retryable argument of run_once's mark_failed calls
retryable_of(outcome) == outcome = "cycle_raised"

\* a cycle that raised ends the tick without a report
run_once_execute_silent(w, outcome, error_message, n, merged_pr_ids) ==
    IF outcome = "cycle_returned"
    THEN mark_completed(w, n, merged_pr_ids)
    ELSE IF outcome = "cycle_raised"
    THEN /\ pc[w] = "execute"
         /\ run_once_returns(w, TRUE)
         /\ UNCHANGED <<jobs, clock, ticks, hard_failed, claimed>>
         /\ UNCHANGED avars
         /\ UNCHANGED xvars
    ELSE /\ error_message.len > 0
         /\ mark_failed(w, error_message, retryable_of(outcome))

\* run_once, lines 72-100, after claim_next_job returned a job: the project
\* row is missing (error_message is "Project <id> not found"), get_provider
\* raised ValueError (error_message is "Unsupported provider `<name>`"),
\* run_autopilot_cycle raised (error_message is str(exc), possibly empty),
\* or it returned n pull requests of which merged_pr_ids were merged.  The
\* cycle runs in the last two cases only.
run_once_execute(w, outcome, error_message, n, merged_pr_ids) ==
    IF outcome = "cycle_returned"
    THEN mark_completed(w, n, merged_pr_ids)
    ELSE /\ outcome # "cycle_raised" => error_message.len > 0
         /\ mark_failed(w, error_message, retryable_of(outcome))

\* the worker process dies inside a tick and is started again
worker_crash(w) ==
    /\ pc[w] \notin {"idle", "waiting"}
    /\ EndTick(w)
    /\ UNCHANGED <<jobs, clock, ticks, hard_failed, claimed>>
    /\ UNCHANGED avars
    /\ UNCHANGED xvars

\* A statement of run_once raises (the database is unreachable, a commit
\* fails, ...).  The with-block closes the session, which rolls back what was
\* not committed; _run_loop has no handler around run_once, so the exception
\* ends the loop and the worker thread: the worker does not tick again.
run_once_raises(w) ==
    /\ pc[w] \notin {"idle", "waiting", "stopped"}
    /\ pc' = [pc EXCEPT ![w] = "stopped"]
    /\ cand' = [cand EXCEPT ![w] = NULL]
    /\ seen' = [seen EXCEPT ![w] = NoRow]
    /\ recovered' = [recovered EXCEPT ![w] = 0]
    /\ UNCHANGED <<jobs, clock, ticks, hard_failed, claimed>>
    /\ UNCHANGED avars
    /\ UNCHANGED xvars

\* The life of one job under all workers, the API and every input.
Next ==
    \/ Tick
    \/ \E mi \in 1..MaxItemsIn, ma \in 1..MaxAttemptsIn :
          Len(jobs) < 1 /\ enqueue_job(mi, ma)
    \/ \E j \in JobIds : cancel_job_read(j)
    \/ cancel_job_write
    \/ \E j \in JobIds : retry_job_read(j)
    \/ retry_job_update
    \/ \E w \in Workers, t \in StaleTimeouts :
          ticks < MaxTicks /\ ticks' = ticks + 1 /\ recover_stale_running_jobs(w, t)
    \/ \E w \in Workers : claim_select(w)
    \/ \E w \in Workers : claim_update(w)
    \/ \E w \in Workers : poll_wait(w)
    \/ \E w \in Workers, o \in Outcomes \ {"cycle_returned"}, n \in GivenLens :
          run_once_execute(w, o, GivenText(n), 0, <<>>)
    \/ \E w \in Workers, n \in 0..MaxItemsIn, m \in MergedLists(MaxItemsIn) :
          run_once_execute(w, "cycle_returned", EmptyText, n, m)
    \/ \E w \in Workers : worker_crash(w)

Spec == Init /\ [][Next]_vars

\* Several jobs in the queue, all with the same max_attempts; one error text;
\* no crash.
NextFifo ==
    \/ Tick
    \/ \E mi \in 1..MaxItemsIn, ma \in {MaxAttemptsIn} :
          Len(jobs) < MaxJobs /\ enqueue_job(mi, ma)
    \/ \E j \in JobIds : cancel_job_read(j)
    \/ cancel_job_write
    \/ \E j \in JobIds : retry_job_read(j)
    \/ retry_job_update
    \/ \E w \in Workers, t \in StaleTimeouts :
          ticks < MaxTicksFifo /\ ticks' = ticks + 1 /\ recover_stale_running_jobs(w, t)
    \/ \E w \in Workers : claim_select(w)
    \/ \E w \in Workers : claim_update(w)
    \/ \E w \in Workers : poll_wait(w)
    \/ \E w \in Workers, o \in Outcomes : run_once_execute(w, o, GivenText(7), 0, <<>>)

SpecFifo == Init /\ [][NextFifo]_vars

\* One job that no request cancels or retries and whose every cycle raises:
\* the workers' ticks alone.
NextRetryable ==
    \/ Tick
    \/ \E mi \in 1..MaxItemsIn, ma \in 1..MaxAttemptsIn :
          Len(jobs) < 1 /\ enqueue_job(mi, ma)
    \/ \E w \in Workers, t \in StaleTimeouts :
          ticks < MaxTicks /\ ticks' = ticks + 1 /\ recover_stale_running_jobs(w, t)
    \/ \E w \in Workers : claim_select(w)
    \/ \E w \in Workers : claim_update(w)
    \/ \E w \in Workers : poll_wait(w)
    \/ \E w \in Workers, n \in GivenLens :
          run_once_execute(w, "cycle_raised", GivenText(n), 0, <<>>)

SpecRetryable == Init /\ [][NextRetryable]_vars

\* The worker loops: ticks on one job, any of which may raise.
NextLoop ==
    \/ Tick
    \/ \E mi \in 1..MaxItemsIn, ma \in 1..MaxAttemptsIn :
          Len(jobs) < 1 /\ enqueue_job(mi, ma)
    \/ \E w \in Workers, t \in StaleTimeouts :
          ticks < MaxTicks /\ ticks' = ticks + 1 /\ recover_stale_running_jobs(w, t)
    \/ \E w \in Workers : claim_select(w)
    \/ \E w \in Workers : claim_update(w)
    \/ \E w \in Workers : poll_wait(w)
    \/ \E w \in Workers, o \in Outcomes : run_once_execute(w, o, GivenText(7), 0, <<>>)
    \/ \E w \in Workers : run_once_raises(w)

SpecLoop == Init /\ [][NextLoop]_vars

\* Time passing without end.  Once the clock is at MaxTime the timestamps
\* are kept relative to now: instead of the clock moving forward, every
\* stored started_at and created_at moves back, down to 0 (an age of MaxTime
\* or more).  A timeout of at most MaxTime sees the same rows as stale.
Age(t) == IF t = NULL THEN NULL ELSE IF t > 0 THEN t - 1 ELSE 0

TimePasses ==
    IF clock < MaxTime
    THEN Tick
    ELSE /\ jobs' = [j \in Ids |->
                        [jobs[j] EXCEPT !.started_at = Age(@),
                                        !.created_at = Age(@)]]
         /\ UNCHANGED <<clock, ticks, hard_failed, claimed>>
         /\ UNCHANGED wvars
         /\ UNCHANGED avars
         /\ UNCHANGED xvars

\* the worker that stays alive; the others may stop at any point of a tick
LiveWorker == 1

\* a stale timeout that enables recovery
PositiveTimeouts == {t \in StaleTimeouts : t > 0}

LiveTick(w) ==
    \/ \E t \in PositiveTimeouts : recover_stale_running_jobs(w, t) /\ UNCHANGED ticks
    \/ claim_select(w)
    \/ claim_update(w)
    \/ poll_wait(w)
    \/ \E o \in Outcomes : run_once_execute(w, o, GivenText(7), 0, <<>>)

\* One job, workers with a positive stale timeout ticking without a bound on
\* the number of ticks, cancel requests, and workers other than LiveWorker
\* crashing.
NextLive ==
    \/ TimePasses
    \/ \E mi \in 1..MaxItemsIn, ma \in 1..MaxAttemptsIn :
          Len(jobs) < 1 /\ enqueue_job(mi, ma)
    \/ \E j \in JobIds : cancel_job_read(j)
    \/ cancel_job_write
    \/ \E w \in Workers : LiveTick(w)
    \/ \E w \in Workers \ {LiveWorker} : worker_crash(w)

\* _run_loop calls run_once again and again, every statement of a tick
\* returns, the cycle ends, and time goes on.
SpecLive ==
    /\ Init
    /\ [][NextLive]_vars
    /\ WF_vars(TimePasses)
    /\ WF_vars(LiveTick(LiveWorker))

\* ------------------------------------------------------- autopilot cycle

\* models.WorkItem; rows are inserted one after the other, so created_at
\* grows with the id
NewWorkItem(id, status, priority, assigned_agent_id) ==
    [status |-> status,
     priority |-> priority,
     created_at |-> id,
     assigned_agent_id |-> assigned_agent_id]

\* the session adds a row / changes a row
AddRow(rows, table, row) == [rows EXCEPT ![table] = Append(@, row)]
SetItem(rows, id, item) == [rows EXCEPT !.work_items[id] = item]

\* _log_event
log_event(rows, event_type, work_item_id, processed_items) ==
    AddRow(rows, "events", [event_type |-> event_type,
                            work_item_id |-> work_item_id,
                            processed_items |-> processed_items])

\* ORDER BY created_at ASC alone
Before_created_only(items, a, b) == items[a].created_at < items[b].created_at

\* ORDER BY priority ASC, created_at ASC: row a comes before row b
Before(items, a, b) ==
    \/ items[a].priority < items[b].priority
    \/ /\ items[a].priority = items[b].priority
       /\ items[a].created_at < items[b].created_at

\* the rows matching WHERE status = backlog (of the cycle's project)
BacklogIds(items) == {i \in DOMAIN items : items[i].status = "backlog"}

\* the first `limit` ids of S in the ORDER BY order
RECURSIVE OrderLimit(_, _, _)
OrderLimit(items, S, limit) ==
    IF S = {} \/ limit <= 0
    THEN <<>>
    ELSE LET a == CHOOSE x \in S : \A y \in S \ {x} : Before(items, x, y)
         IN <<a>> \o OrderLimit(items, S \ {a}, limit - 1)

\* run_autopilot_cycle, lines 346-354: the SELECT of the backlog items
select_backlog(items, limit) == OrderLimit(items, BacklogIds(items), limit)

\* the loop runs every selected item
skips_unassigned_never(pol, item) == FALSE

\* run_autopilot_cycle, line 361
skips_unassigned(pol, item) ==
    ~pol.auto_assign /\ item.assigned_agent_id = NoAgent

\* _pick_agent: the first active agent of the role, if any
pick_agent(active, role) == IF role \in active THEN role ELSE NoAgent

\* _run_item, lines 168-170: the coder of the item
pick_coder(pol, active, item) ==
    IF item.assigned_agent_id # NoAgent THEN item.assigned_agent_id
    ELSE IF pol.auto_assign THEN pick_agent(active, "coder")
    ELSE NoAgent

\* every review approves
rule_based_review_lenient(role, checks_passed) == "approve"

\* RuleBasedProvider.review_pull_request
rule_based_review(role, checks_passed) ==
    IF role = "tester" /\ ~checks_passed THEN "request_changes" ELSE "approve"

\* what the chat model can answer a review request with ("error": the call
\* or the parsing of the answer raised)
Replies == {"approve", "request_changes", "error"}

\* provider.review_pull_request: the rule-based provider decides by rule; the
\* OpenAI provider takes the decision of the reply and falls back to the
\* rule when the call raises
review_pull_request(name, role, checks_passed, reply) ==
    IF name = "openai" /\ reply # "error"
    THEN IF reply = "request_changes" THEN "request_changes" ELSE "approve"
    ELSE rule_based_review(role, checks_passed)

\* the reviews _run_item adds for pull request pr_id
item_reviews(pol, active, name, pr_id, checks_passed, reviewer_reply, tester_reply) ==
    IF ~pol.auto_review
    THEN <<>>
    ELSE (IF pick_agent(active, "reviewer") # NoAgent
          THEN <<[pull_request_id |-> pr_id,
                  role |-> "reviewer",
                  decision |-> review_pull_request(name, "reviewer",
                                                   checks_passed, reviewer_reply)]>>
          ELSE <<>>)
         \o
         (IF pick_agent(active, "tester") # NoAgent
          THEN <<[pull_request_id |-> pr_id,
                  role |-> "tester",
                  decision |-> review_pull_request(name, "tester",
                                                   checks_passed, tester_reply)]>>
          ELSE <<>>)

\* sum(1 for review in reviews if review.decision == approve)
count_approvals(revs) ==
    Cardinality({i \in DOMAIN revs : revs[i].decision = "approve"})

\* the gate without the approvals
merge_allowed_no_approvals(pol, pr, approvals) ==
    /\ pol.auto_merge
    /\ pr.auto_merge
    /\ (~pol.require_test_pass \/ pr.checks_passed)

\* _run_item, lines 290-295
merge_allowed(pol, pr, approvals) ==
    /\ pol.auto_merge
    /\ pr.auto_merge
    /\ approvals >= pol.min_review_approvals
    /\ (~pol.require_test_pass \/ pr.checks_passed)

\* the item is done as soon as the gate allows the merge
item_status_after_gate_only(allowed, merge_ok) ==
    IF allowed THEN "done" ELSE "review"

\* _run_item, lines 298-328: the status the item ends with
item_status_after(allowed, merge_ok) ==
    IF allowed /\ merge_ok THEN "done" ELSE "review"

\* _run_item, lines 298-328: the status the pull request ends with
pr_status_after(allowed, merge_ok) ==
    IF allowed /\ merge_ok THEN "merged" ELSE "open"

\* no except clause
caught_never(exc) == FALSE

\* run_autopilot_cycle, line 372: except GitError
caught(exc) == exc = "GitError"

\* ------------------------------------------------------- the git workspace

\* A relative path is the sequence of its parts.  "/" as first part makes
\* the path absolute; "link" is a symbolic link in the workspace directory
\* that points to a directory outside of it.
RelativePaths ==
    {<<"agent_notes", "work_item_1.md">>,
     <<"..", "..", "outside.txt">>,
     <<"agent_notes", "..", "..", "outside.txt">>,
     <<"..", "project", "README.md">>,
     <<"/", "etc", "passwd">>,
     <<"link", "outside.txt">>}

\* Path.resolve(), one part at a time
RECURSIVE resolve(_, _)
resolve(path, parts) ==
    IF parts = <<>> THEN path
    ELSE LET part == Head(parts)
             next_path ==
                 IF part = "/" THEN <<>>
                 ELSE IF part = ".."
                 THEN (IF path = <<>> THEN <<>> ELSE SubSeq(path, 1, Len(path) - 1))
                 ELSE IF part = "link" /\ path = WorkspacePath
                 THEN <<"elsewhere">>
                 ELSE Append(path, part)
         IN  resolve(next_path, Tail(parts))

\* workspace in target.parents or target == workspace
IsWithin(target, workspace) ==
    /\ Len(target) >= Len(workspace)
    /\ SubSeq(target, 1, Len(workspace)) = workspace

\* the path is accepted when it does not begin with ".." or "/"
within_workspace_lexical(relative_path) ==
    relative_path = <<>> \/ Head(relative_path) \notin {"..", "/"}

\* _ensure_path_within_workspace, lines 148-153: the path is accepted
within_workspace(relative_path) ==
    IsWithin(resolve(WorkspacePath, relative_path), WorkspacePath)

\* The changes a provider can hand over: one file to write, or a unified
\* diff that names the agent's notes file and another file.
Changes ==
    {[kind |-> "file", paths |-> {p}] : p \in RelativePaths}
    \cup {[kind |-> "patch", paths |-> {<<"agent_notes", "work_item_1.md">>, p}] :
              p \in RelativePaths \ {<<"agent_notes", "work_item_1.md">>}}

\* the containment check applied to every path the change refers to
change_within(change) == \A p \in change.paths : within_workspace(p)

\* the files the change writes
targets(change) == {resolve(WorkspacePath, p) : p \in change.paths}

\* The commands of commit_agent_change that raise GitError when they fail,
\* in order: 1 _prepare_workspace_locked, 2 checkout default, 3 checkout -b,
\* 4 add, 5 commit, 6 rev-parse and show.  NoStop: none fails.
NoStop == 0
CommitStops == 0..6

\* _prepare_workspace_locked, lines 123-142, when it returns: the default
\* branch is checked out, and the pull may have brought a commit of origin
prepared_repo(r, pulled) ==
    [r EXCEPT !.head = DefaultBranch,
              !.refs[DefaultBranch] = IF pulled THEN @ \cup {RemoteCommit} ELSE @]

WsResult(r, result, wrote, commits) ==
    [repo |-> r, result |-> result, wrote |-> wrote, commits |-> commits]

\* commit_agent_change, lines 155-181: the workspace it leaves and how it
\* ends, when command number stop fails; changed: the change differs from
\* what the branch holds (otherwise git has "nothing to commit")
commit_agent_change_repo(r, branch_name, change, stop, changed, pulled) ==
    LET prepared == prepared_repo(r, pulled)
        deleted == [prepared EXCEPT !.refs[branch_name] = {}]
        branched == [prepared EXCEPT !.head = branch_name,
                                     !.refs[branch_name] = prepared.refs[DefaultBranch]]
        wrote == [branched EXCEPT !.written = @ \cup targets(change)]
        made == IF changed
                THEN [wrote EXCEPT !.refs[branch_name] = @ \cup {r.next},
                                   !.next = @ + 1]
                ELSE wrote
        commits == IF changed THEN 1 ELSE 0
    IN  IF stop = 1 THEN WsResult(r, "raised", {}, 0)
        ELSE IF stop = 2 THEN WsResult(prepared, "raised", {}, 0)
        ELSE IF stop = 3 THEN WsResult(deleted, "raised", {}, 0)
        ELSE IF ~change_within(change) THEN WsResult(branched, "raised", {}, 0)
        ELSE IF stop \in {4, 5} THEN WsResult(wrote, "raised", targets(change), 0)
        ELSE IF stop = 6 THEN WsResult(made, "raised", targets(change), commits)
        ELSE WsResult(made, "returned", targets(change), commits)

\* The commands of merge_branch that raise GitError when they fail: 1
\* _prepare_workspace_locked, 2 checkout default, 3 merge --no-ff, 4
\* rev-parse.
MergeStops == 0..4

\* the default branch is left as it is when it cannot be fast-forwarded
merge_refs_ff_only(refs, branch_name, merge_commit) ==
    IF refs[DefaultBranch] \subseteq refs[branch_name]
    THEN [refs EXCEPT ![DefaultBranch] = refs[branch_name]]
    ELSE refs

\* merge_branch, lines 187-189: the branches after merge --ff-only or, when
\* that fails, merge --no-ff, which makes a merge commit
merge_refs(refs, branch_name, merge_commit) ==
    IF refs[branch_name] \subseteq refs[DefaultBranch]
    THEN refs
    ELSE IF refs[DefaultBranch] \subseteq refs[branch_name]
    THEN [refs EXCEPT ![DefaultBranch] = refs[branch_name]]
    ELSE [refs EXCEPT ![DefaultBranch] =
              @ \cup refs[branch_name] \cup {merge_commit}]

\* merge_branch, lines 183-195 (AGENT_HUB_AUTO_PUSH off): the workspace it
\* leaves and how it ends; git refuses to merge a branch that does not
\* exist, and merge --no-ff fails on a conflict
merge_branch_repo(r, branch_name, stop, pulled) ==
    LET prepared == prepared_repo(r, pulled)
        no_ff == /\ ~(prepared.refs[branch_name] \subseteq prepared.refs[DefaultBranch])
                 /\ ~(prepared.refs[DefaultBranch] \subseteq prepared.refs[branch_name])
        merged == [prepared EXCEPT
                      !.refs = merge_refs(@, branch_name, r.next),
                      !.next = IF no_ff THEN @ + 1 ELSE @]
        commits == IF no_ff THEN 1 ELSE 0
    IN  IF stop = 1 THEN WsResult(r, "raised", {}, 0)
        ELSE IF stop = 2 THEN WsResult(prepared, "raised", {}, 0)
        ELSE IF prepared.refs[branch_name] = {} THEN WsResult(prepared, "raised", {}, 0)
        ELSE IF stop = 3 /\ no_ff THEN WsResult(prepared, "raised", {}, 0)
        ELSE IF stop = 4 THEN WsResult(merged, "raised", {}, commits)
        ELSE WsResult(merged, "returned", {}, commits)

WsCall(op, branch_name, change, res) ==
    [op |-> op, branch_name |-> branch_name, change |-> change,
     result |-> res.result, wrote |-> res.wrote, commits |-> res.commits]

\* a change of the provider that stays in the workspace: the notes file of
\* the work item
NotesChange == [kind |-> "file", paths |-> {<<"agent_notes", "work_item_1.md">>}]

\* the ways commit_agent_change can end for the cycle: returned with the
\* provider's change committed (or nothing to commit), or GitError raised by
\* a failing command or by the path check
commit_results(r, branch_name, ok) ==
    IF ok
    THEN {[res |-> commit_agent_change_repo(r, branch_name, NotesChange, NoStop,
                                            changed, pulled),
           change |-> NotesChange] : changed, pulled \in BOOLEAN}
    ELSE {x \in {[res |-> commit_agent_change_repo(r, branch_name, change, stop,
                                                   TRUE, FALSE),
                  change |-> change] :
                     change \in Changes, stop \in CommitStops} :
             x.res.result = "raised"}

\* the ways merge_branch can end for the cycle
merge_results(r, branch_name, ok) ==
    {x \in {merge_branch_repo(r, branch_name, stop, pulled) :
                stop \in MergeStops, pulled \in BOOLEAN} :
        x.result = IF ok THEN "returned" ELSE "raised"}

\* _run_item, lines 186 and 299: the calls of an item on the workspace;
\* merge_branch is called when the merge gate allows it
run_item_git(branch_name, commit_ok, allowed, merge_ok) ==
    \E c \in commit_results(repo, branch_name, commit_ok) :
        IF commit_ok /\ allowed
        THEN \E m \in merge_results(c.res.repo, branch_name, merge_ok) :
                /\ repo' = m.repo
                /\ ws_ret' = WsCall("merge_branch", branch_name, NoChange, m)
        ELSE /\ repo' = c.res.repo
             /\ ws_ret' = WsCall("commit_agent_change", branch_name, c.change, c.res)

\* an exception leaves run_autopilot_cycle with the session as it is
cycle_raises(rows) ==
    /\ db' = rows
    /\ cpc' = "raised"
    /\ UNCHANGED <<item_idx, cycle_created_prs, cycle_merged_pr_ids,
                   merge_calls, committed>>

\* run_autopilot_cycle, lines 343-358
cycle_select ==
    /\ cpc = "idle"
    /\ cpc' = "loop"
    /\ backlog_items' = select_backlog(db.work_items, cycle_max_items)
    /\ item_idx' = 1
    /\ cycle_created_prs' = <<>>
    /\ cycle_merged_pr_ids' = <<>>
    /\ UNCHANGED <<policy, agents, provider_name, cycle_max_items, db,
                   committed, merge_calls, cycle_report>>
    /\ UNCHANGED qvars
    /\ UNCHANGED uvars
    /\ UNCHANGED git_vars

\* run_autopilot_cycle, lines 360-369: the item is logged and left alone
cycle_skip ==
    /\ cpc = "loop"
    /\ item_idx <= Len(backlog_items)
    /\ LET id == backlog_items[item_idx]
       IN /\ skips_unassigned(policy, db.work_items[id])
          /\ db' = log_event(db, "work_item_skipped_unassigned", id, 0)
    /\ item_idx' = item_idx + 1
    /\ UNCHANGED <<policy, agents, provider_name, cycle_max_items, committed,
                   cpc, backlog_items, cycle_created_prs, cycle_merged_pr_ids,
                   merge_calls, cycle_report>>
    /\ UNCHANGED qvars
    /\ UNCHANGED uvars
    /\ UNCHANGED git_vars

\* run_autopilot_cycle, lines 370-384, with _run_item: one item through the
\* pipeline.  The inputs are what the calls outside the database do:
\* synthesize_change returns or raises, commit_agent_change succeeds or
\* raises GitError, run_validation's result, the chat model's replies to the
\* two review requests, merge_branch succeeds or raises GitError.  This is
\* what the item does to the rows and to the cycle's lists.
run_item_rows(synth_ok, commit_ok, checks_passed, reviewer_reply, tester_reply, merge_ok) ==
    /\ cpc = "loop"
    /\ item_idx <= Len(backlog_items)
    /\ LET id == backlog_items[item_idx]
           item == db.work_items[id]
           coder == pick_coder(policy, agents, item)
           started == SetItem(db, id, [item EXCEPT !.assigned_agent_id = coder,
                                                   !.status = "in_progress"])
       IN /\ ~skips_unassigned(policy, item)
          /\ IF coder = NoAgent
             THEN cycle_raises(db)
             ELSE IF ~synth_ok
             THEN cycle_raises(started)
             ELSE IF ~commit_ok
             THEN LET failed_run == [work_item_id |-> id, status |-> "failed",
                                     tests_passed |-> FALSE]
                      reverted == SetItem(AddRow(started, "agent_runs", failed_run), id,
                                          [started.work_items[id] EXCEPT !.status = "backlog"])
                      logged == log_event(reverted, "work_item_failed", id, 0)
                  IN IF caught("GitError")
                     THEN /\ db' = log_event(logged, "autopilot_item_failed", id, 0)
                          /\ item_idx' = item_idx + 1
                          /\ UNCHANGED <<cpc, cycle_created_prs, cycle_merged_pr_ids,
                                         merge_calls, committed>>
                     ELSE cycle_raises(logged)
             ELSE LET run == [work_item_id |-> id, status |-> "completed",
                              tests_passed |-> checks_passed]
                      pr_id == Len(db.pull_requests) + 1
                      pr == [work_item_id |-> id, status |-> "open",
                             checks_passed |-> checks_passed, auto_merge |-> TRUE]
                      revs == item_reviews(policy, agents, provider_name, pr_id,
                                           checks_passed, reviewer_reply, tester_reply)
                      approvals == count_approvals(revs)
                      allowed == merge_allowed(policy, pr, approvals)
                      with_pr == AddRow(AddRow(started, "agent_runs", run),
                                        "pull_requests",
                                        [pr EXCEPT !.status = pr_status_after(allowed, merge_ok)])
                      with_revs == [with_pr EXCEPT !.reviews = @ \o revs]
                      reviewed == IF policy.auto_review THEN with_revs
                                  ELSE log_event(with_revs, "auto_review_disabled", id, 0)
                      final == SetItem(reviewed, id,
                                       [reviewed.work_items[id] EXCEPT
                                           !.status = item_status_after(allowed, merge_ok)])
                      merged == final.pull_requests[pr_id].status = "merged"
                  IN /\ db' = log_event(final,
                                        IF ~allowed THEN "pr_opened"
                                        ELSE IF merge_ok THEN "pr_merged"
                                        ELSE "pr_merge_failed",
                                        id, 0)
                     /\ merge_calls' = IF allowed
                                       THEN merge_calls \cup {[pull_request_id |-> pr_id,
                                                               ok |-> merge_ok]}
                                       ELSE merge_calls
                     /\ cycle_created_prs' = Append(cycle_created_prs, pr_id)
                     /\ cycle_merged_pr_ids' = IF merged THEN Append(cycle_merged_pr_ids, pr_id)
                                               ELSE cycle_merged_pr_ids
                     /\ item_idx' = item_idx + 1
                     /\ UNCHANGED <<cpc, committed>>
    /\ UNCHANGED <<policy, agents, provider_name, cycle_max_items,
                   backlog_items, cycle_report>>
    /\ UNCHANGED qvars
    /\ UNCHANGED <<run_vars, project_vars, cc_vars>>
    /\ UNCHANGED git_vars

\* one item through the pipeline, the workspace left out
run_item(synth_ok, commit_ok, checks_passed, reviewer_reply, tester_reply, merge_ok) ==
    /\ run_item_rows(synth_ok, commit_ok, checks_passed, reviewer_reply,
                     tester_reply, merge_ok)
    /\ UNCHANGED ws_vars

\* one item through the pipeline, with its calls on the workspace: none
\* before a coder is found and the change is synthesized
run_item_ws(synth_ok, commit_ok, checks_passed, reviewer_reply, tester_reply, merge_ok) ==
    /\ run_item_rows(synth_ok, commit_ok, checks_passed, reviewer_reply,
                     tester_reply, merge_ok)
    /\ LET id == backlog_items[item_idx]
       IN  IF pick_coder(policy, agents, db.work_items[id]) = NoAgent \/ ~synth_ok
           THEN UNCHANGED ws_vars
           ELSE run_item_git(id, commit_ok, merge_calls' # merge_calls, merge_ok)

\* run_autopilot_cycle, lines 386-401: the cycle's one commit, and the return
cycle_commit ==
    /\ cpc = "loop"
    /\ item_idx > Len(backlog_items)
    /\ LET logged == log_event(db, "autopilot_cycle_completed", 0, Len(backlog_items))
       IN /\ db' = logged
          /\ committed' = logged
    /\ cpc' = "returned"
    /\ UNCHANGED <<policy, agents, provider_name, cycle_max_items, backlog_items,
                   item_idx, cycle_created_prs, cycle_merged_pr_ids,
                   merge_calls, cycle_report>>
    /\ UNCHANGED qvars
    /\ UNCHANGED uvars
    /\ UNCHANGED git_vars

\* what the caller reports about a cycle that returned: len(prs) twice and
\* len(merged_pr_ids)
Report(kind) ==
    [kind |-> kind,
     processed_items |-> Len(cycle_created_prs),
     created_prs |-> Len(cycle_created_prs),
     merged_prs |-> Len(cycle_merged_pr_ids)]

\* run_once, lines 95-100: mark_completed on the session of the cycle; its
\* commit finds nothing of the cycle pending
report_completed ==
    /\ cpc = "returned"
    /\ cycle_report' = Report("completed")
    /\ committed' = db
    /\ cpc' = "reported"
    /\ UNCHANGED <<policy, agents, provider_name, cycle_max_items, db,
                   backlog_items, item_idx, cycle_created_prs,
                   cycle_merged_pr_ids, merge_calls>>
    /\ UNCHANGED qvars
    /\ UNCHANGED uvars
    /\ UNCHANGED git_vars

\* run_once, lines 89-93: the cycle raised and the worker calls mark_failed
\* on the session the cycle used; mark_failed's commit (job_queue.py line
\* 265) flushes and commits all that the session holds
report_failed ==
    /\ cpc = "raised"
    /\ cycle_report' = [NoReport EXCEPT !.kind = "failed"]
    /\ committed' = db
    /\ cpc' = "reported"
    /\ UNCHANGED <<policy, agents, provider_name, cycle_max_items, db,
                   backlog_items, item_idx, cycle_created_prs,
                   cycle_merged_pr_ids, merge_calls>>
    /\ UNCHANGED qvars
    /\ UNCHANGED uvars
    /\ UNCHANGED git_vars

\* POST /projects/{id}/autopilot/run: the cycle returned and the response is
\* built from its result
run_autopilot_responds ==
    /\ cpc = "returned"
    /\ cycle_report' = Report("response")
    /\ cpc' = "reported"
    /\ UNCHANGED <<policy, agents, provider_name, cycle_max_items, db, committed,
                   backlog_items, item_idx, cycle_created_prs,
                   cycle_merged_pr_ids, merge_calls>>
    /\ UNCHANGED qvars
    /\ UNCHANGED uvars
    /\ UNCHANGED git_vars

\* POST /projects/{id}/autopilot/run: the cycle raised; get_session closes
\* the session, which rolls back what was not committed
run_autopilot_fails ==
    /\ cpc = "raised"
    /\ cycle_report' = [NoReport EXCEPT !.kind = "error"]
    /\ db' = committed
    /\ cpc' = "reported"
    /\ UNCHANGED <<policy, agents, provider_name, cycle_max_items, committed,
                   backlog_items, item_idx, cycle_created_prs,
                   cycle_merged_pr_ids, merge_calls>>
    /\ UNCHANGED qvars
    /\ UNCHANGED uvars
    /\ UNCHANGED git_vars

\* the policies a project can have: every combination of the switches and
\* min_review_approvals from 1 (the API's lower limit) to MaxApprovals
Policies ==
    {[DefaultPolicy EXCEPT !.auto_assign = aa, !.auto_review = ar,
                           !.auto_merge = am, !.min_review_approvals = n,
                           !.require_test_pass = rt] :
        aa \in BOOLEAN, ar \in BOOLEAN, am \in BOOLEAN,
        n \in 1..MaxApprovals, rt \in BOOLEAN}

\* One backlog item, assigned to a coder or to nobody, under every policy,
\* every set of active roles and both providers.
InitItem ==
    /\ InitQueue
    /\ NoGit
    /\ NoUnit
    /\ policy \in Policies
    /\ agents \in SUBSET Roles
    /\ provider_name \in Providers
    /\ cycle_max_items = 1
    /\ \E a \in {NoAgent, "coder"} :
          db = [NoRows EXCEPT !.work_items =
                   <<NewWorkItem(1, "backlog", DefaultPriority, a)>>]
    /\ committed = db
    /\ CycleIdle

CycleNext ==
    \/ cycle_select
    \/ cycle_skip
    \/ \E synth_ok, commit_ok, checks_passed, merge_ok \in BOOLEAN,
          reviewer_reply, tester_reply \in Replies :
          run_item(synth_ok, commit_ok, checks_passed, reviewer_reply,
                   tester_reply, merge_ok)
    \/ cycle_commit
    \/ report_completed
    \/ report_failed
    \/ run_autopilot_responds
    \/ run_autopilot_fails

SpecItem == InitItem /\ [][CycleNext]_vars

\* the work items a project can start a cycle with: a backlog item has any
\* priority and may be assigned; an item past the backlog has been assigned
ItemInits(id) ==
    {NewWorkItem(id, "backlog", p, a) : p \in Priorities, a \in {NoAgent, "coder"}}
    \cup {NewWorkItem(id, st, DefaultPriority, "coder") :
             st \in WorkItemStatus \ {"backlog"}}

\* MaxWorkItems work items, the full roster of agents, the rule-based
\* provider and the default policy with auto_assign on or off.
InitCycle ==
    /\ InitQueue
    /\ NoGit
    /\ NoUnit
    /\ policy \in {[DefaultPolicy EXCEPT !.auto_assign = aa] : aa \in BOOLEAN}
    /\ agents = Roles
    /\ provider_name = "rule_based"
    /\ cycle_max_items \in 1..MaxWorkItems
    /\ \E items \in [1..MaxWorkItems -> UNION {ItemInits(i) : i \in 1..MaxWorkItems}] :
          /\ \A i \in 1..MaxWorkItems : items[i] \in ItemInits(i)
          /\ db = [NoRows EXCEPT !.work_items = [i \in 1..MaxWorkItems |-> items[i]]]
    /\ committed = db
    /\ CycleIdle

SpecCycle == InitCycle /\ [][CycleNext]_vars

\* one worker tick on a job of one item: the cycle with its calls on the
\* workspace, reported by the worker
TickNext ==
    \/ cycle_select
    \/ cycle_skip
    \/ \E synth_ok, commit_ok, checks_passed, merge_ok \in BOOLEAN,
          reviewer_reply, tester_reply \in Replies :
          run_item_ws(synth_ok, commit_ok, checks_passed, reviewer_reply,
                      tester_reply, merge_ok)
    \/ cycle_commit
    \/ report_completed
    \/ report_failed

SpecTick == InitItem /\ [][TickNext]_vars

\* ----------------------------------------------------------- git sequences

\* workspace_root / f"project-{project_id}.lock", for callers that share the
\* workspace root
lock_path(project_id) == <<"project", project_id, "lock">>

\* flock returns at once
flock_free_always(held, path) == TRUE

\* fcntl.flock(LOCK_EX) returns when no other open file description holds a
\* lock on the file
flock_free(held, path) == \A l \in held : l.path # path

\* _project_lock, lines 102-103: a caller (a thread of this process or of
\* another one) enters a git sequence and opens the project's lock file
git_open(c, project_id, op) ==
    /\ gpc[c] = "idle"
    /\ gpc' = [gpc EXCEPT ![c] = "flock"]
    /\ gcall' = [gcall EXCEPT ![c] = [project_id |-> project_id, op |-> op,
                                       raised |-> FALSE]]
    /\ UNCHANGED flock
    /\ UNCHANGED qvars
    /\ UNCHANGED uvars
    /\ UNCHANGED cycle_vars

\* _project_lock, line 104: flock grants the exclusive lock
git_flock(c) ==
    /\ gpc[c] = "flock"
    /\ flock_free(flock, lock_path(gcall[c].project_id))
    /\ flock' = flock \cup {[path |-> lock_path(gcall[c].project_id), holder |-> c]}
    /\ gpc' = [gpc EXCEPT ![c] = "prepare"]
    /\ UNCHANGED gcall
    /\ UNCHANGED qvars
    /\ UNCHANGED uvars
    /\ UNCHANGED cycle_vars

\* _prepare_workspace_locked, the first part of every sequence: it returns
\* or raises GitError; prepare_workspace is over with it
git_prepare(c, ok) ==
    /\ gpc[c] = "prepare"
    /\ gpc' = [gpc EXCEPT ![c] =
                  IF ok /\ gcall[c].op # "prepare_workspace" THEN "body" ELSE "unlock"]
    /\ gcall' = [gcall EXCEPT ![c].raised = ~ok]
    /\ UNCHANGED flock
    /\ UNCHANGED qvars
    /\ UNCHANGED uvars
    /\ UNCHANGED cycle_vars

\* the git commands of commit_agent_change (lines 158-181) or merge_branch
\* (lines 186-195), which return or raise
git_body(c, ok) ==
    /\ gpc[c] = "body"
    /\ gpc' = [gpc EXCEPT ![c] = "unlock"]
    /\ gcall' = [gcall EXCEPT ![c].raised = ~ok]
    /\ UNCHANGED flock
    /\ UNCHANGED qvars
    /\ UNCHANGED uvars
    /\ UNCHANGED cycle_vars

\* the lock is given up only when the sequence returned
released_on_return_only(held, c, raised) ==
    IF raised THEN held ELSE {l \in held : l.holder # c}

\* the locks held after caller c left the with-blocks of _project_lock: the
\* finally clause unlocks and the file is closed, whether the body returned
\* or raised
released(held, c, raised) == {l \in held : l.holder # c}

\* _project_lock, lines 107-109: the finally clause unlocks and the file is
\* closed, after a return and after an exception alike
git_unlock(c) ==
    /\ gpc[c] = "unlock"
    /\ flock' = released(flock, c, gcall[c].raised)
    /\ gpc' = [gpc EXCEPT ![c] = "idle"]
    /\ gcall' = [gcall EXCEPT ![c] = NoCall]
    /\ UNCHANGED qvars
    /\ UNCHANGED uvars
    /\ UNCHANGED cycle_vars

GitNext ==
    \/ \E c \in GitCallers, p \in ProjectIds, op \in GitOps : git_open(c, p, op)
    \/ \E c \in GitCallers : git_flock(c)
    \/ \E c \in GitCallers, ok \in BOOLEAN : git_prepare(c, ok)
    \/ \E c \in GitCallers, ok \in BOOLEAN : git_body(c, ok)
    \/ \E c \in GitCallers : git_unlock(c)

SpecGit == Init /\ [][GitNext]_vars

\* the steps of caller c inside a sequence, from the granted lock to the
\* unlock
git_sequence_step(c) ==
    \/ \E ok \in BOOLEAN : git_prepare(c, ok)
    \/ \E ok \in BOOLEAN : git_body(c, ok)
    \/ git_unlock(c)

\* The callers are live: every git command ends (with a result, or with a
\* GitError after the command timeout), so a caller inside a sequence takes
\* its next step.  Nothing is assumed about which waiting caller flock
\* serves.
SpecGitLive ==
    /\ Init
    /\ [][GitNext]_vars
    /\ \A c \in GitCallers : WF_vars(git_sequence_step(c))

\* ------------------------------------------------- the git command wrapper

Max(a, b) == IF a >= b THEN a ELSE b

\* A text printed by git is the sequence of its parts; a marker occurs in a
\* text when it is one of the parts.
Markers == {"index.lock", "another git process seems to be running",
            "unable to access", "failed to connect", "connection reset",
            "operation timed out"}

\* str.lower() of a part
lower(part) ==
    CASE part = "Unable to access" -> "unable to access"
      [] part = "Connection reset" -> "connection reset"
      [] part = "FATAL: " -> "fatal: "
      [] OTHER -> part

\* the stripped texts a failing command prints on one stream
Texts == {<<>>,
          <<"fatal: ", "Unable to access", " the remote">>,
          <<"error: could not lock ", "index.lock", ": File exists">>,
          <<"FATAL: ", "not a git repository">>,
          <<"warning: ", "refname is ambiguous">>}

\* what one subprocess.run gives: exit status 0, a non-zero exit status with
\* the two streams, or TimeoutExpired
RunOutcomes ==
    {[kind |-> k, stderr |-> <<>>, stdout |-> <<>>] : k \in {"exit0", "timeout"}}
    \cup {[kind |-> "nonzero", stderr |-> e, stdout |-> o] : e, o \in Texts}

\* _run, line 88: stderr or stdout or "no output"
output_of(outcome) ==
    IF outcome.stderr # <<>> THEN outcome.stderr
    ELSE IF outcome.stdout # <<>> THEN outcome.stdout
    ELSE <<"no output">>

is_transient_error(output) ==
    \E marker \in Markers :
        \E i \in 1..Len(output) : lower(output[i]) = marker

\* _run, line 63
attempts_of(command_retries) == Max(command_retries + 1, 1)

\* every failure is retried while attempts are left
retry_after_failure_any(n, attempts, output) == n < attempts

\* _run, line 91: the failed execution number n is followed by another one
retry_after_failure(n, attempts, output) ==
    n < attempts /\ is_transient_error(output)

\* _run, lines 76-94: where the call is after execution number n
after_execution(outcome, n, attempts, check) ==
    IF outcome.kind = "timeout"
    THEN IF n < attempts THEN "loop" ELSE "raised"
    ELSE IF ~check \/ outcome.kind = "exit0"
    THEN "returned"
    ELSE IF retry_after_failure(n, attempts, output_of(outcome))
    THEN "loop"
    ELSE "raised"

run_frame == <<qvars, cycle_vars, git_vars, project_vars, ws_vars, cc_vars>>

\* _run is called on a manager with the given command_retries
run_call(command_retries, check) ==
    /\ run_pc = "idle"
    /\ run_pc' = "loop"
    /\ run_args' = [command_retries |-> command_retries, check |-> check]
    /\ attempt' = 0
    /\ run_out' = NoOutcome
    /\ UNCHANGED run_frame

\* one pass of the for loop, lines 66-94: the command is executed once (a
\* hung command ends with TimeoutExpired after command_timeout_sec)
run_execute(outcome) ==
    /\ run_pc = "loop"
    /\ attempt < attempts_of(run_args.command_retries)
    /\ attempt' = attempt + 1
    /\ run_out' = outcome
    /\ run_pc' = after_execution(outcome, attempt + 1,
                                 attempts_of(run_args.command_retries),
                                 run_args.check)
    /\ UNCHANGED run_args
    /\ UNCHANGED run_frame

\* the caller goes on with the result or the GitError
run_leave ==
    /\ run_pc \in {"returned", "raised"}
    /\ run_pc' = "idle"
    /\ run_args' = [command_retries |-> 0, check |-> TRUE]
    /\ attempt' = 0
    /\ run_out' = NoOutcome
    /\ UNCHANGED run_frame

RunNext ==
    \/ \E command_retries \in -1..MaxRetries, check \in BOOLEAN :
          run_call(command_retries, check)
    \/ \E outcome \in RunOutcomes : run_execute(outcome)
    \/ run_leave

\* subprocess.run returns or raises TimeoutExpired within the timeout, and
\* the sleeps between attempts end
SpecRunLive ==
    /\ Init
    /\ [][RunNext]_vars
    /\ WF_vars(\E outcome \in RunOutcomes : run_execute(outcome))

\* ------------------------------------------- bootstrap and objectives

AgentRole == {"planner"} \cup Roles
AgentStatus == {"active", "paused"}

\* DEFAULT_AGENT_BLUEPRINTS, in order
DEFAULT_AGENT_BLUEPRINTS == <<"planner", "coder", "reviewer", "tester">>

project_frame == <<qvars, cycle_vars, git_vars, run_vars, ws_vars, cc_vars>>

\* POST /projects/{id}/agents
create_agent(role, status) ==
    /\ Len(roster) < MaxAgents
    /\ roster' = Append(roster, [role |-> role, status |-> status])
    /\ last_op' = Returned("create_agent", <<>>, 0, TRUE)
    /\ UNCHANGED <<project_policy, work_rows, project_events>>
    /\ UNCHANGED project_frame

\* _ensure_project_policy / _get_policy: the row, created with the column
\* defaults when the project has none
ensure_policy(rows) == IF rows = NoPolicy THEN <<DefaultPolicy>> ELSE rows

\* PATCH /projects/{id}/policy with auto_triage
update_automation_policy(auto_triage) ==
    /\ project_policy' =
           [ensure_policy(project_policy) EXCEPT ![1].auto_triage = auto_triage]
    /\ last_op' = Returned("update_policy", <<>>, 0, TRUE)
    /\ UNCHANGED <<roster, work_rows, project_events>>
    /\ UNCHANGED project_frame

\* the four default agents are added whatever the project has
bootstrap_roster_always(agents_now) ==
    agents_now \o [i \in 1..Len(DEFAULT_AGENT_BLUEPRINTS) |->
                     [role |-> DEFAULT_AGENT_BLUEPRINTS[i], status |-> "active"]]

\* bootstrap, lines 71-84: the agents table after the call
bootstrap_roster(agents_now) ==
    IF agents_now # <<>>
    THEN agents_now
    ELSE [i \in 1..Len(DEFAULT_AGENT_BLUEPRINTS) |->
             [role |-> DEFAULT_AGENT_BLUEPRINTS[i], status |-> "active"]]

\* bootstrap, lines 70-95
bootstrap ==
    /\ roster' = bootstrap_roster(roster)
    /\ last_op' = Returned("bootstrap", bootstrap_roster(roster), 0, TRUE)
    /\ IF roster # <<>>
       THEN UNCHANGED <<project_policy, project_events>>
       ELSE /\ project_policy' = ensure_policy(project_policy)
            /\ project_events' = Append(project_events,
                   [event_type |-> "project_bootstrapped",
                    count |-> Len(DEFAULT_AGENT_BLUEPRINTS)])
    /\ UNCHANGED work_rows
    /\ UNCHANGED project_frame

\* An objective is the sequence of the pieces that re.split(r"[\n.;]+") cuts
\* it into; a piece is blank (empty or white space) or holds text.
Objectives ==
    UNION {[1..n -> {"blank", "text"}] : n \in 1..MaxPieces}

\* lines 104-106: the stripped pieces that are not empty, by position in the
\* objective
RECURSIVE sentences_of(_, _)
sentences_of(objective, i) ==
    IF i > Len(objective) THEN <<>>
    ELSE IF objective[i] = "blank" THEN sentences_of(objective, i + 1)
    ELSE <<[piece |-> i]>> \o sentences_of(objective, i + 1)

\* objective.strip()
Whole == [piece |-> 0]

\* lines 104-111: the segments that become work items
capped_segments(objective, max_work_items, auto_triage) ==
    LET sentences == IF sentences_of(objective, 1) = <<>> \/ ~auto_triage
                     THEN <<Whole>>
                     ELSE sentences_of(objective, 1)
    IN  SubSeq(sentences, 1, Min(Len(sentences), max_work_items))

\* the priority is the position of the segment
item_priority_idx(idx) == idx

\* line 127: priority=min(idx, 5)
item_priority(idx) == Min(idx, PriorityCap)

\* lines 113-131: the work item of segment number idx
objective_item(segment, idx) ==
    [title |-> IF idx = 1 THEN "Scope" ELSE "Implement",
     segment |-> segment,
     status |-> "backlog",
     priority |-> item_priority(idx)]

IsIngested(e) == e.event_type = "objective_ingested"

\* the objectives the project has taken in
ObjectivesIngested == Len(SelectSeq(project_events, IsIngested))

\* create_work_items_from_objective, lines 97-139
create_work_items_from_objective(objective, max_work_items) ==
    LET rows == ensure_policy(project_policy)
        segments == capped_segments(objective, max_work_items, rows[1].auto_triage)
        created == [idx \in 1..Len(segments) |-> objective_item(segments[idx], idx)]
    IN  /\ ObjectivesIngested < MaxObjectives
        /\ project_policy' = rows
        /\ work_rows' = work_rows \o created
        /\ project_events' = Append(project_events,
               [event_type |-> "objective_ingested", count |-> Len(created)])
        /\ last_op' = Returned("objective", created, max_work_items,
                                rows[1].auto_triage)
        /\ UNCHANGED roster
        /\ UNCHANGED project_frame

\* a project made by POST /projects has its policy row; a project row
\* inserted in another way has none
InitProject ==
    /\ InitQueue
    /\ NoCycle
    /\ NoGit
    /\ NoRun
    /\ NoWorkspace
    /\ NoConcurrent
    /\ roster = <<>>
    /\ project_policy \in {NoPolicy, <<DefaultPolicy>>}
    /\ work_rows = <<>>
    /\ project_events = <<>>
    /\ last_op = NoOp

ProjectNext ==
    \/ \E role \in AgentRole, status \in AgentStatus : create_agent(role, status)
    \/ \E auto_triage \in BOOLEAN : update_automation_policy(auto_triage)
    \/ bootstrap

SpecProject == InitProject /\ [][ProjectNext]_vars

\* a project without a policy row, or with one that has auto_triage on or off
InitObjective ==
    /\ InitQueue
    /\ NoCycle
    /\ NoGit
    /\ NoRun
    /\ NoWorkspace
    /\ NoConcurrent
    /\ roster = <<>>
    /\ project_policy \in {NoPolicy} \cup
           {<<[DefaultPolicy EXCEPT !.auto_triage = t]>> : t \in BOOLEAN}
    /\ work_rows = <<>>
    /\ project_events = <<>>
    /\ last_op = NoOp

ObjectiveNext ==
    \E objective \in Objectives, max_work_items \in 1..MaxObjectiveItems :
        create_work_items_from_objective(objective, max_work_items)

SpecObjective == InitObjective /\ [][ObjectiveNext]_vars

\* ------------------------------------------- calls on the git workspace

ws_frame == <<qvars, cycle_vars, git_vars, run_vars, project_vars, cc_vars>>

\* a caller runs commit_agent_change, under the project lock
ws_commit_agent_change(branch_name, change, stop, changed, pulled) ==
    LET res == commit_agent_change_repo(repo, branch_name, change, stop,
                                        changed, pulled)
    IN  /\ repo.next <= MaxCommits
        /\ repo' = res.repo
        /\ ws_ret' = WsCall("commit_agent_change", branch_name, change, res)
        /\ UNCHANGED ws_frame

\* a caller runs merge_branch, under the project lock
ws_merge_branch(branch_name, stop, pulled) ==
    LET res == merge_branch_repo(repo, branch_name, stop, pulled)
    IN  /\ repo.next <= MaxCommits
        /\ repo' = res.repo
        /\ ws_ret' = WsCall("merge_branch", branch_name, NoChange, res)
        /\ UNCHANGED ws_frame

WorkspaceNext ==
    \/ \E branch_name \in 1..NumBranches, change \in Changes,
          stop \in CommitStops, changed, pulled \in BOOLEAN :
          ws_commit_agent_change(branch_name, change, stop, changed, pulled)
    \/ \E branch_name \in 1..NumBranches, stop \in MergeStops,
          pulled \in BOOLEAN :
          ws_merge_branch(branch_name, stop, pulled)

SpecWorkspace == Init /\ [][WorkspaceNext]_vars

\* ------------------------------------------------------ concurrent cycles

cc_frame == <<qvars, cycle_vars, git_vars, run_vars, project_vars, ws_vars>>

\* the session has a flushed, uncommitted UPDATE of work item id
HoldsRow(session, id) == \E k \in 1..Len(session.items) : session.items[k].id = id

\* run_autopilot_cycle, lines 343-354: a session starts a cycle and selects
\* the backlog items among the committed rows
cc_select(c, max_items) ==
    /\ cc_sessions[c].pc = "idle"
    /\ cc_sessions' = [cc_sessions EXCEPT ![c] =
           [NoSession EXCEPT !.pc = "loop",
                             !.selected = select_backlog(cc_table.work_items, max_items)]]
    /\ UNCHANGED cc_table
    /\ UNCHANGED cc_frame

\* run_autopilot_cycle, lines 360-384, with _run_item on the item the
\* session loaded at the SELECT: nothing reads the row again.  The flush of
\* line 245 writes the item's row, which waits while another session holds
\* an uncommitted write of that row.
cc_run_item(c, commit_ok, allowed, merge_ok) ==
    LET session == cc_sessions[c]
        id == session.selected[session.idx]
    IN  /\ session.pc = "loop"
        /\ session.idx <= Len(session.selected)
        /\ \A c2 \in Cycles \ {c} : ~HoldsRow(cc_sessions[c2], id)
        /\ cc_sessions' = [cc_sessions EXCEPT ![c] =
               IF ~commit_ok
               THEN [session EXCEPT !.idx = @ + 1]
               ELSE [session EXCEPT
                        !.idx = @ + 1,
                        !.items = Append(@, [id |-> id,
                                             status |-> item_status_after(allowed, merge_ok)]),
                        !.prs = Append(@, [work_item_id |-> id,
                                           status |-> pr_status_after(allowed, merge_ok),
                                           session |-> c])]]
        /\ UNCHANGED cc_table
        /\ UNCHANGED cc_frame

\* the rows after the UPDATEs of the session's items, by primary key
RECURSIVE write_items(_, _)
write_items(work_items, pending) ==
    IF pending = <<>> THEN work_items
    ELSE write_items([work_items EXCEPT ![Head(pending).id].status = Head(pending).status],
                     Tail(pending))

\* run_autopilot_cycle, line 394: the cycle's commit
cc_commit(c) ==
    LET session == cc_sessions[c]
    IN  /\ session.pc = "loop"
        /\ session.idx > Len(session.selected)
        /\ cc_table' = [work_items |-> write_items(cc_table.work_items, session.items),
                        pull_requests |-> cc_table.pull_requests \o session.prs]
        /\ cc_sessions' = [cc_sessions EXCEPT ![c] = NoSession]
        /\ UNCHANGED cc_frame

\* MaxWorkItems assigned backlog items and no pull request
InitConcurrent ==
    /\ InitQueue
    /\ NoCycle
    /\ NoGit
    /\ NoRun
    /\ NoProject
    /\ NoWorkspace
    /\ cc_table = [work_items |-> [i \in 1..MaxWorkItems |->
                                     NewWorkItem(i, "backlog", DefaultPriority, "coder")],
                   pull_requests |-> <<>>]
    /\ cc_sessions = [c \in Cycles |-> NoSession]

ConcurrentNext ==
    \/ \E c \in Cycles, max_items \in 1..MaxWorkItems : cc_select(c, max_items)
    \/ \E c \in Cycles, commit_ok, allowed, merge_ok \in BOOLEAN :
          cc_run_item(c, commit_ok, allowed, merge_ok)
    \/ \E c \in Cycles : cc_commit(c)

SpecConcurrent == InitConcurrent /\ [][ConcurrentNext]_vars

\* ------------------------------------------------------------------ claims

Executing(w) == pc[w] = "execute"

\* worker w's claim_next_job returns its candidate in this step
ClaimReturns(w) == pc[w] = "claim_update" /\ pc'[w] = "execute"

\* retry_job's UPDATE acts on job j in this step
RetryStep(j) == apc = "retry_update" /\ ajob = j /\ apc' = "idle"

\* C1: within one queued episode of a job, claim_next_job returns the job to
\* at most one caller, whatever the interleaving of the callers' SELECT and
\* UPDATE steps.
C1_AtMostOneClaim == \A j \in Ids : claimed[j] <= 1

\* two callers selected the same queued job; one got it, the other's UPDATE
\* is still to come
C1_Witness ==
    \E w, v \in Workers :
        /\ w # v
        /\ Executing(w) /\ pc[v] = "claim_update"
        /\ cand[w] = cand[v]
        /\ jobs[cand[w]].status = "running"
        /\ jobs[cand[w]].worker_id = w
        /\ claimed[cand[w]] = 1

AllowedEdge(from, to) ==
    \/ from = "queued" /\ to \in {"running", "canceled"}
    \/ from = "running" /\ to \in {"completed", "failed", "queued", "canceled"}

\* C2 (as claimed): a job's status changes only along queued->running,
\* running->completed|failed|queued, queued|running->canceled, and
\* failed|canceled->queued by retry_job alone.
C2_Original ==
    [][\A j \in Ids :
          \/ jobs'[j].status = jobs[j].status
          \/ AllowedEdge(jobs[j].status, jobs'[j].status)
          \/ /\ jobs[j].status \in {"failed", "canceled"}
             /\ jobs'[j].status = "queued"
             /\ RetryStep(j)]_vars

\* C3 (as claimed): once a job is completed, no step changes its status or
\* its processed_items / created_prs / merged_prs.
C3_Original ==
    [][\A j \in Ids :
          jobs[j].status = "completed" =>
              /\ jobs'[j].status = "completed"
              /\ jobs'[j].processed_items = jobs[j].processed_items
              /\ jobs'[j].created_prs = jobs[j].created_prs
              /\ jobs'[j].merged_prs = jobs[j].merged_prs]_vars

\* C4 (as claimed): no two workers are between their successful claim of the
\* same job and their report for it.
C4_Original ==
    \A w, v \in Workers :
        (w # v /\ Executing(w) /\ Executing(v)) => cand[w] # cand[v]

\* C4 (amended): while a job is still running under worker w's claim (status
\* running, worker_id w, w not yet reported), no other worker's
\* claim_next_job returns it.
C4_Amended ==
    [][\A v \in Workers :
          ClaimReturns(v) =>
              ~ \E w \in Workers \ {v} :
                    /\ Executing(w)
                    /\ cand[w] = cand[v]
                    /\ jobs[cand[v]].status = "running"
                    /\ jobs[cand[v]].worker_id = w]_vars

\* two workers execute the same job: the second got it after it was put back
\* to queued while the first was still executing
C4_Witness ==
    \E w, v \in Workers :
        /\ w # v
        /\ Executing(w) /\ Executing(v)
        /\ cand[w] = cand[v]
        /\ jobs[cand[v]].status = "running"
        /\ jobs[cand[v]].worker_id = v

\* C5: enqueue_job inserts the job queued with attempts = 0; when exactly one
\* job is queued, claim_next_job selects it; every successful claim leaves
\* the job running with attempts one higher, worker_id the caller and
\* started_at set, and returns the row in that state.
C5_ClaimEffect ==
    [][/\ Len(jobs') > Len(jobs) =>
              /\ jobs'[Len(jobs')].status = "queued"
              /\ jobs'[Len(jobs')].attempts = 0
       /\ \A w \in Workers :
              (pc[w] = "claim_select" /\ pc'[w] # "claim_select") =>
                  /\ Cardinality(Queued) >= 1 => pc'[w] = "claim_update"
                  /\ \A j \in Ids : Queued = {j} => cand'[w] = j
       /\ \A w \in Workers :
              (pc[w] = "claim_update" /\ pc'[w] # "claim_update") =>
                  /\ jobs[cand[w]].status = "queued" => ClaimReturns(w)
                  /\ ClaimReturns(w) =>
                        /\ jobs'[cand[w]].status = "running"
                        /\ jobs'[cand[w]].attempts = jobs[cand[w]].attempts + 1
                        /\ jobs'[cand[w]].worker_id = w
                        /\ jobs'[cand[w]].started_at # NULL
                        /\ seen'[w].status = "running"
                        /\ seen'[w].attempts = jobs'[cand[w]].attempts
                        /\ seen'[w].worker_id = w]_vars

\* a job claimed for the second time while another job waits in the queue
C5_Witness ==
    \E w \in Workers, k \in Ids :
        /\ Executing(w)
        /\ cand[w] # k
        /\ jobs[k].status = "queued" /\ jobs[k].attempts = 0
        /\ jobs[cand[w]].status = "running"
        /\ jobs[cand[w]].attempts = 2
        /\ jobs[cand[w]].worker_id = w
        /\ jobs[cand[w]].started_at # NULL

\* C6: the job claim_next_job selects is one with the earliest created_at
\* among the jobs queued at that moment, and no operation changes a job's
\* created_at (so a job that re-enters the queue keeps its place).
C6_Fifo ==
    [][/\ \A w \in Workers :
              (pc[w] = "claim_select" /\ pc'[w] = "claim_update") =>
                  /\ cand'[w] \in Queued
                  /\ \A k \in Queued :
                        jobs[k].created_at >= jobs[cand'[w]].created_at
       /\ \A j \in Ids : jobs'[j].created_at = jobs[j].created_at]_vars

\* a job that re-entered the queue was selected ahead of a younger queued job
C6_Witness ==
    \E w \in Workers, k \in Ids :
        /\ pc[w] = "claim_update"
        /\ jobs[cand[w]].status = "queued"
        /\ jobs[cand[w]].attempts >= 1
        /\ jobs[k].status = "queued"
        /\ jobs[k].created_at > jobs[cand[w]].created_at

\* C7: when the candidate is no longer queued at the UPDATE, claim_next_job
\* returns none (the tick ends normally) and no row is changed.
C7_LostRace ==
    [][\A w \in Workers :
          (/\ pc[w] = "claim_update"
           /\ jobs[cand[w]].status # "queued"
           /\ pc'[w] # "claim_update") =>
              /\ jobs' = jobs
              /\ pc'[w] \in {"idle", "waiting"}
              /\ cand'[w] = NULL
              /\ seen'[w] = NoRow]_vars

\* the candidate was canceled between the SELECT and the UPDATE
C7_Witness ==
    \E w \in Workers :
        /\ pc[w] = "claim_update"
        /\ jobs[cand[w]].status = "canceled"
        /\ jobs[cand[w]].attempts = 0

\* C8 (as claimed, for a non-empty message): mark_failed(retryable=true) on
\* a running job puts it back to queued with worker_id cleared and
\* finished_at unset if attempts < max_attempts, makes it failed with
\* finished_at set if attempts = max_attempts, and stores the message cut to
\* the bound.
C8_Original ==
    [][\A w \in Workers, n \in GivenLens \ {0} :
          (/\ mark_failed(w, GivenText(n), TRUE)
           /\ jobs[cand[w]].status = "running") =>
              /\ jobs[cand[w]].attempts < jobs[cand[w]].max_attempts =>
                    /\ jobs'[cand[w]].status = "queued"
                    /\ jobs'[cand[w]].worker_id = NULL
                    /\ jobs'[cand[w]].finished_at = NULL
              /\ jobs[cand[w]].attempts = jobs[cand[w]].max_attempts =>
                    /\ jobs'[cand[w]].status = "failed"
                    /\ jobs'[cand[w]].finished_at # NULL
              /\ jobs'[cand[w]].error_message = Cut(GivenText(n), ErrBound)]_vars

\* C9 (as claimed): mark_failed(retryable=false) makes the job failed with
\* finished_at set whatever attempts and max_attempts are, and the job is
\* neither queued nor running again before retry_job acts on it.
C9_Original ==
    [][/\ \A w \in Workers, n \in GivenLens :
              mark_failed(w, GivenText(n), FALSE) =>
                  /\ jobs'[cand[w]].status = "failed"
                  /\ jobs'[cand[w]].finished_at # NULL
       /\ \A j \in hard_failed' : jobs'[j].status \notin {"queued", "running"}]_vars

\* C10: cancel_job goes on to its write only for a job it read as queued or
\* running (on a completed, failed or canceled job it returns without
\* changing anything, so a second cancel changes nothing); the write leaves
\* status = canceled with canceled_at and finished_at set and no other
\* column changed.
C10_Cancel ==
    [][/\ (apc = "idle" /\ apc' = "cancel_write") =>
              /\ jobs[ajob'].status \in {"queued", "running"}
              /\ jobs' = jobs
       /\ (apc = "cancel_write" /\ apc' = "idle") =>
              /\ jobs'[ajob].status = "canceled"
              /\ jobs'[ajob].canceled_at # NULL
              /\ jobs'[ajob].finished_at # NULL
              /\ \A f \in DOMAIN jobs[ajob] \ {"status", "canceled_at", "finished_at"} :
                    jobs'[ajob][f] = jobs[ajob][f]
       /\ \A j \in Ids :
              (apc = "idle" /\ jobs[j].status \in {"completed", "failed", "canceled"}) =>
                  ~(apc' = "cancel_write" /\ ajob' = j)]_vars

\* a job canceled while it was running, and a cancel request for a job that
\* is already canceled has returned
C10_Witness ==
    \E j \in Ids :
        /\ apc = "idle"
        /\ jobs[j].status = "canceled"
        /\ jobs[j].canceled_at # NULL
        /\ jobs[j].finished_at # NULL
        /\ jobs[j].worker_id # NULL
        /\ jobs[j].attempts >= 1

\* C11 (as claimed): a job that was canceled while running (status canceled,
\* worker_id still that of the claimant) is neither queued nor running
\* after any step other than retry_job's UPDATE: the in-flight worker's
\* report does not requeue it and no claim or stale recovery selects it.
C11_Original ==
    [][\A j \in Ids :
          (jobs[j].status = "canceled" /\ jobs[j].worker_id # NULL) =>
              \/ jobs'[j].status \notin {"queued", "running"}
              \/ RetryStep(j)]_vars

\* C12: retry_job's UPDATE on a failed or canceled job leaves the row equal
\* to the row enqueue_job inserts for the same max_items and max_attempts
\* (status queued, attempts 0, worker_id and the three timestamps null, the
\* counters 0, merged ids empty, error_message empty); only created_at is
\* kept.
C12_RetryResets ==
    [][\A j \in Ids :
          (RetryStep(j) /\ jobs[j].status \in {"failed", "canceled"}) =>
              jobs'[j] = NewJob(jobs[j].max_items, jobs[j].max_attempts,
                                jobs[j].created_at)]_vars

\* a job canceled while running was retried while its worker is still
\* executing it: the row is as freshly enqueued
C12_Witness ==
    \E w \in Workers :
        /\ Executing(w)
        /\ seen[w].attempts >= 1
        /\ jobs[cand[w]] = NewJob(jobs[cand[w]].max_items,
                                  jobs[cand[w]].max_attempts,
                                  jobs[cand[w]].created_at)

\* C13: retry_job on a job it reads as queued, running or completed goes no
\* further (ValueError) and changes nothing; when the job is no longer failed
\* or canceled at the conditional UPDATE, the UPDATE matches no row
\* (ValueError) and the table is unchanged.
C13_RetryRejects ==
    [][/\ \A j \in Ids :
              (apc = "idle" /\ jobs[j].status \in {"queued", "running", "completed"}) =>
                  ~(apc' = "retry_update" /\ ajob' = j)
       /\ (apc = "idle" /\ apc' = "retry_update") => jobs' = jobs
       /\ \A j \in Ids :
              (RetryStep(j) /\ jobs[j].status \in {"queued", "running", "completed"}) =>
                  /\ retry_rowcount(jobs[j]) = 0
                  /\ jobs' = jobs]_vars

\* retry_job read the job as canceled; before its UPDATE the in-flight
\* worker reported the job completed
C13_Witness ==
    /\ apc = "retry_update"
    /\ jobs[ajob].status = "completed"
    /\ jobs[ajob].canceled_at # NULL

\* the rows recover_stale_running_jobs(T) is to move when called now
StaleAt(j, T) ==
    /\ jobs[j].status = "running"
    /\ jobs[j].started_at # NULL
    /\ jobs[j].started_at <= clock - T

\* C14: recover_stale_running_jobs(T) with T > 0 moves every running job
\* whose started_at is at or before now - T: to queued with worker_id and
\* started_at cleared if attempts < max_attempts, to failed with worker_id
\* cleared and finished_at set otherwise; both record the stale reason and
\* neither changes attempts.
C14_Recover ==
    [][\A w \in Workers, T \in StaleTimeouts :
          (/\ T > 0
           /\ pc[w] = "idle"
           /\ pc'[w] = "claim_select"
           /\ recover_stale_running_jobs(w, T)) =>
              \A j \in Ids :
                  StaleAt(j, T) =>
                      /\ jobs'[j].attempts = jobs[j].attempts
                      /\ jobs'[j].error_message = stale_error
                      /\ jobs'[j].worker_id = NULL
                      /\ IF jobs[j].attempts < jobs[j].max_attempts
                           THEN /\ jobs'[j].status = "queued"
                                /\ jobs'[j].started_at = NULL
                           ELSE /\ jobs'[j].status = "failed"
                                /\ jobs'[j].finished_at # NULL]_vars

\* a tick whose recovery has just failed a stale job that had used up its
\* attempts
C14_Witness ==
    \E w \in Workers, j \in Ids :
        /\ pc[w] = "claim_select"
        /\ recovered[w] = 1
        /\ jobs[j].status = "failed"
        /\ jobs[j].attempts = jobs[j].max_attempts
        /\ jobs[j].worker_id = NULL
        /\ jobs[j].finished_at # NULL
        /\ jobs[j].error_message = stale_error

\* C15: recover_stale_running_jobs leaves every row unchanged that is not
\* running or that started later than now - T; the number it returns is the
\* number of rows it moved; with T <= 0 it returns 0 and changes nothing.
C15_RecoverFrame ==
    [][\A w \in Workers, T \in StaleTimeouts :
          (/\ pc[w] = "idle"
           /\ pc'[w] = "claim_select"
           /\ recover_stale_running_jobs(w, T)) =>
              /\ \A j \in Ids :
                     ~(T > 0 /\ StaleAt(j, T)) => jobs'[j] = jobs[j]
              /\ recovered'[w] =
                     Cardinality({j \in Ids : jobs'[j].status # jobs[j].status})
              /\ T <= 0 => (recovered'[w] = 0 /\ jobs' = jobs)]_vars

\* a tick whose recovery returned 0 and left alone a job that has been
\* running since before the last clock tick
C15_Witness ==
    \E w \in Workers, j \in Ids :
        /\ pc[w] = "claim_select"
        /\ recovered[w] = 0
        /\ jobs[j].status = "running"
        /\ jobs[j].started_at < clock

\* C16 (as claimed): in every reachable state every job has
\* attempts <= max_attempts.
C16_Original == \A j \in Ids : jobs[j].attempts <= jobs[j].max_attempts

\* C20: when the claimed job's project does not exist or its provider name
\* is unknown, run_once reports mark_failed(retryable = false): right after
\* the report the job is failed with finished_at set, whatever attempts and
\* max_attempts are; attempts and the cycle's counters are as they were (the
\* cycle was not run) and the tick is over.
C20_NoProjectOrProvider ==
    [][\A w \in Workers, o \in {"no_project", "unknown_provider"},
          n \in GivenLens \ {0} :
          (/\ Executing(w)
           /\ pc'[w] = "idle"
           /\ run_once_execute(w, o, GivenText(n), 0, <<>>)) =>
              /\ jobs'[cand[w]].status = "failed"
              /\ jobs'[cand[w]].finished_at # NULL
              /\ jobs'[cand[w]].attempts = jobs[cand[w]].attempts
              /\ jobs'[cand[w]].processed_items = jobs[cand[w]].processed_items
              /\ jobs'[cand[w]].created_prs = jobs[cand[w]].created_prs
              /\ jobs'[cand[w]].merged_prs = jobs[cand[w]].merged_prs
              /\ jobs'[cand[w]].merged_pr_ids_json = jobs[cand[w]].merged_pr_ids_json
              /\ cand[w] \in hard_failed'
              /\ pc'[w] = "idle"]_vars

\* a job reported failed without retry after its first attempt although a
\* second attempt was allowed
C20_Witness ==
    \E j \in Ids :
        /\ j \in hard_failed
        /\ jobs[j].status = "failed"
        /\ jobs[j].attempts = 1
        /\ jobs[j].max_attempts = 2
        /\ jobs[j].finished_at # NULL
        /\ jobs[j].error_message = GivenText(7)

\* C17 (as claimed): a job that is never canceled or retried and whose
\* every execution fails with a retryable error is failed only with
\* attempts = max_attempts: not before its attempts reach max_attempts and
\* after exactly max_attempts claims.
C17_Original ==
    \A j \in Ids : jobs[j].status = "failed" => jobs[j].attempts = jobs[j].max_attempts

\* C19 (as claimed): when run_once raises, the worker's loop goes on: the
\* worker is back at the start of a tick, not stopped.
C19_Original ==
    [][\A w \in Workers :
          (pc[w] \notin {"idle", "waiting", "stopped"} /\ run_once_raises(w)) =>
              pc'[w] = "idle"]_vars

Terminal == {"completed", "failed", "canceled"}

\* C18: with a positive stale timeout and a worker that keeps ticking, a job
\* that is running and whose started_at is a timeout or more in the past
\* (its worker crashed or is slow) leaves running, and every enqueued job
\* reaches completed, failed or canceled.  SpecLive enqueues one job, the
\* job with id 1.
C18_StaleLeavesRunning ==
    \A j \in 1..1 :
        /\ (j \in Ids /\ \E T \in PositiveTimeouts : StaleAt(j, T))
               ~> (j \in Ids /\ jobs[j].status # "running")
        /\ (j \in Ids) ~> (j \in Ids /\ jobs[j].status \in Terminal)

\* a job left running by a worker that crashed: its claimant is back at the
\* start of a tick, the job is stale, and it has used up its attempts
C18_Witness ==
    \E j \in Ids, w \in Workers \ {LiveWorker} :
        /\ jobs[j].status = "running"
        /\ jobs[j].worker_id = w
        /\ pc[w] = "idle"
        /\ jobs[j].attempts >= jobs[j].max_attempts
        /\ \E T \in PositiveTimeouts : StaleAt(j, T)

\* C21: every job a worker claims in run_once is reported before run_once
\* returns.  The step that ends a tick with a claimed job leaves the job's
\* row out of running; when run_autopilot_cycle raised, the row is queued or
\* failed as mark_failed(retryable = true) decides (retried while the
\* session's attempts are below max_attempts, and not marked as failed for
\* good); when it returned, the row is completed with finished_at set and
\* the cycle's counters stored.
C21_ClaimedJobReported ==
    [][\A w \in Workers :
          (Executing(w) /\ pc'[w] # "execute") =>
              /\ jobs'[cand[w]].status \in {"queued", "failed", "completed"}
              /\ run_once_execute(w, "cycle_raised", GivenText(7), 0, <<>>) =>
                     /\ jobs'[cand[w]].status =
                            IF should_retry(seen[w], TRUE) THEN "queued" ELSE "failed"
                     /\ hard_failed' = hard_failed
              /\ run_once_execute(w, "cycle_returned", GivenText(7), 0, <<>>) =>
                     /\ jobs'[cand[w]].status = "completed"
                     /\ jobs'[cand[w]].finished_at # NULL
                     /\ jobs'[cand[w]].merged_pr_ids_json = json_dumps(<<>>)]_vars

\* two ticks are over: one job's cycle raised and the job is queued again
\* with the error stored, the other job's cycle returned and it is completed
C21_Witness ==
    \E j1, j2 \in Ids :
        /\ jobs[j1].status = "queued"
        /\ jobs[j1].attempts = 1
        /\ jobs[j1].error_message = GivenText(7)
        /\ j1 \notin hard_failed
        /\ jobs[j2].status = "completed"
        /\ jobs[j2].finished_at # NULL
        /\ \A w \in Workers : pc[w] = "idle"

\* the order of a tick's statements and of the loop around it
TickEdges ==
    {<<"idle", "claim_select">>,
     <<"claim_select", "claim_update">>, <<"claim_select", "idle">>,
     <<"claim_select", "waiting">>,
     <<"claim_update", "execute">>, <<"claim_update", "idle">>,
     <<"claim_update", "waiting">>,
     <<"execute", "idle">>,
     <<"waiting", "idle">>}

\* C22: a tick runs recover_stale_running_jobs, then claim_next_job, then
\* executes the one job claimed, if any, and returns; it returns true (the
\* loop starts the next tick without the poll_interval wait) exactly when it
\* claimed a job or recovered at least one stale job, and the loop waits
\* poll_interval only after a tick that returned false.
C22_TickOrder ==
    [][\A w \in Workers :
          /\ pc'[w] # pc[w] => <<pc[w], pc'[w]>> \in TickEdges
          /\ (pc[w] = "idle" /\ pc'[w] # "idle") =>
                 \E T \in StaleTimeouts : recover_stale_running_jobs(w, T)
          /\ (pc[w] \in {"claim_select", "claim_update", "execute"}
                /\ pc'[w] \in {"idle", "waiting"}) =>
                 (pc'[w] = "idle" <=> (pc[w] = "execute" \/ recovered[w] > 0))]_vars

\* a worker waits after a tick that found nothing to do, and the job was
\* failed by the recovery of an earlier tick, which claimed nothing and
\* returned true
C22_Witness ==
    \E w \in Workers, j \in Ids :
        /\ pc[w] = "waiting"
        /\ jobs[j].status = "failed"
        /\ jobs[j].error_message = stale_error
        /\ ticks = 3

\* the approving reviews stored for pull request p
Approvals(p) ==
    Cardinality({i \in DOMAIN db.reviews :
                    /\ db.reviews[i].pull_request_id = p
                    /\ db.reviews[i].decision = "approve"})

MergeAttempted(p) == \E c \in merge_calls : c.pull_request_id = p

\* C23: for every item the pipeline made a pull request for, merge_branch
\* was called if and only if policy.auto_merge and pr.auto_merge and the
\* number of approving reviews is at least policy.min_review_approvals and
\* (not policy.require_test_pass or the checks passed); merge_branch is
\* called for such pull requests only, and with auto_review disabled there
\* is no review and no call at all.
C23_MergeGate ==
    /\ \A p \in DOMAIN db.pull_requests :
           MergeAttempted(p) <=>
               /\ policy.auto_merge
               /\ db.pull_requests[p].auto_merge
               /\ Approvals(p) >= policy.min_review_approvals
               /\ (~policy.require_test_pass \/ db.pull_requests[p].checks_passed)
    /\ \A c \in merge_calls : c.pull_request_id \in DOMAIN db.pull_requests
    /\ ~policy.auto_review => (db.reviews = <<>> /\ merge_calls = {})

\* a merge attempted on two approvals where two are required, although the
\* checks failed: the policy does not require them to pass
C23_Witness ==
    \E p \in DOMAIN db.pull_requests :
        /\ MergeAttempted(p)
        /\ policy.min_review_approvals = 2
        /\ Approvals(p) = 2
        /\ ~policy.require_test_pass
        /\ ~db.pull_requests[p].checks_passed

\* the ids in a list
Elems(seq) == {seq[i] : i \in DOMAIN seq}

\* C24: after the pipeline ran on an item, its pull request is merged if and
\* only if the item is done, and that is if and only if merge_branch was
\* called (the gate allowed) and succeeded, the id then being in the cycle's
\* merged list; otherwise the pull request is open, the item is in review
\* and the id is not in the merged list.  An item is done only with a merged
\* pull request, and a cycle that made a pull request has not raised.
C24_EndStatesAgree ==
    /\ \A p \in DOMAIN db.pull_requests :
           LET pr == db.pull_requests[p]
               item == db.work_items[pr.work_item_id]
           IN /\ pr.status = "merged" <=> item.status = "done"
              /\ pr.status = "merged" <=>
                     [pull_request_id |-> p, ok |-> TRUE] \in merge_calls
              /\ pr.status = "merged" <=> p \in Elems(cycle_merged_pr_ids)
              /\ pr.status # "merged" =>
                     (pr.status = "open" /\ item.status = "review")
              /\ p \in Elems(cycle_created_prs)
    /\ \A i \in DOMAIN db.work_items :
           db.work_items[i].status = "done" =>
               \E p \in DOMAIN db.pull_requests :
                   /\ db.pull_requests[p].work_item_id = i
                   /\ db.pull_requests[p].status = "merged"
    /\ db.pull_requests # <<>> =>
           (cpc # "raised" /\ cycle_report.kind \notin {"failed", "error"})

\* the gate allowed the merge and git refused it: the pull request is open,
\* the item in review, and the cycle has returned and been reported
C24_Witness ==
    \E p \in DOMAIN db.pull_requests :
        /\ [pull_request_id |-> p, ok |-> FALSE] \in merge_calls
        /\ db.pull_requests[p].status = "open"
        /\ db.work_items[db.pull_requests[p].work_item_id].status = "review"
        /\ cycle_merged_pr_ids = <<>>
        /\ cycle_report.kind = "completed"
        /\ cycle_report.created_prs = 1

SortsBefore(a, b) ==
    \/ db.work_items[a].priority < db.work_items[b].priority
    \/ /\ db.work_items[a].priority = db.work_items[b].priority
       /\ db.work_items[a].created_at < db.work_items[b].created_at

InBacklog == {i \in DOMAIN db.work_items : db.work_items[i].status = "backlog"}

\* C26: run_autopilot_cycle(max_items) selects backlog items only, as many
\* as there are up to max_items, each once, in (priority, created_at)
\* order, and leaves unselected no backlog item that sorts before a selected
\* one; the pipeline changes no other work item than the selected item the
\* loop is at, so items in in_progress, review or done are never touched.
C26_Selection ==
    [][/\ (cpc = "idle" /\ cpc' = "loop") =>
              /\ Elems(backlog_items') \subseteq InBacklog
              /\ Len(backlog_items') = Min(cycle_max_items, Cardinality(InBacklog))
              /\ \A k1, k2 \in DOMAIN backlog_items' :
                     k1 < k2 => SortsBefore(backlog_items'[k1], backlog_items'[k2])
              /\ \A a \in Elems(backlog_items'), b \in InBacklog \ Elems(backlog_items') :
                     SortsBefore(a, b)
       /\ cpc = "loop" =>
              \A i \in DOMAIN db.work_items :
                  db'.work_items[i] # db.work_items[i] =>
                      (item_idx <= Len(backlog_items) /\ i = backlog_items[item_idx])
       /\ \A i \in DOMAIN db.work_items :
              i \notin Elems(backlog_items') => db'.work_items[i] = db.work_items[i]]_vars

\* max_items = 1: the cycle selected the second item, which has the higher
\* priority, left the first one in the backlog and made the selected one's
\* pull request
C26_Witness ==
    /\ cycle_max_items = 1
    /\ backlog_items = <<2>>
    /\ db.work_items[1].status = "backlog"
    /\ db.work_items[1].priority > db.work_items[2].priority
    /\ db.work_items[2].status = "review"
    /\ cycle_created_prs = <<1>>

\* the loop is at an item
AtItem == cpc = "loop" /\ item_idx <= Len(backlog_items)

\* rows of the table that refer to work item i
RowsOf(table, i) == {r \in DOMAIN db[table] : db[table][r].work_item_id = i}

\* C27: with policy.auto_assign off, the step of the loop at a selected item
\* without an assigned agent leaves the item as it is (in backlog,
\* unassigned), adds no run, pull request or review, adds nothing to the
\* cycle's lists and goes on to the next item without raising; such an item
\* never has a run or a pull request; the processed_items reported for the
\* cycle is the number of pull requests made, which leaves the skipped items
\* out; the step at an item with an assigned agent runs the pipeline.
C27_SkipUnassigned ==
    [][~policy.auto_assign =>
          /\ \A i \in DOMAIN db.work_items :
                 db.work_items[i].assigned_agent_id = NoAgent =>
                     /\ RowsOf("agent_runs", i) = {}
                     /\ RowsOf("pull_requests", i) = {}
          /\ (AtItem /\ (item_idx' # item_idx \/ cpc' # cpc)
                /\ db.work_items[backlog_items[item_idx]].assigned_agent_id = NoAgent) =>
                 /\ db'.work_items = db.work_items
                 /\ db'.agent_runs = db.agent_runs
                 /\ db'.pull_requests = db.pull_requests
                 /\ db'.reviews = db.reviews
                 /\ cycle_created_prs' = cycle_created_prs
                 /\ cycle_merged_pr_ids' = cycle_merged_pr_ids
                 /\ cpc' = "loop"
                 /\ item_idx' = item_idx + 1
          /\ (AtItem /\ (item_idx' # item_idx \/ cpc' # cpc)
                /\ db.work_items[backlog_items[item_idx]].assigned_agent_id # NoAgent) =>
                 \/ Len(db'.agent_runs) = Len(db.agent_runs) + 1
                 \/ (cpc' = "raised"
                     /\ db'.work_items[backlog_items[item_idx]].status = "in_progress")
          /\ cycle_report'.kind \in {"completed", "response"} =>
                 /\ cycle_report'.processed_items = Len(db'.pull_requests)
                 /\ cycle_report'.processed_items
                        <= Cardinality({i \in Elems(backlog_items) :
                               db'.work_items[i].assigned_agent_id # NoAgent})]_vars

\* auto_assign is off and the cycle selected two items: the unassigned one
\* is still in backlog and unassigned, the assigned one went through the
\* pipeline, and the job is reported completed with processed_items = 1
C27_Witness ==
    /\ ~policy.auto_assign
    /\ Len(backlog_items) = 2
    /\ cycle_report.kind = "completed"
    /\ cycle_report.processed_items = 1
    /\ \E i, k \in Elems(backlog_items) :
           /\ db.work_items[i].status = "backlog"
           /\ db.work_items[i].assigned_agent_id = NoAgent
           /\ db.work_items[k].status \in {"review", "done"}
           /\ RowsOf("pull_requests", k) # {}
    /\ \E e \in DOMAIN db.events :
           db.events[e].event_type = "work_item_skipped_unassigned"

\* C28: when commit_agent_change raises GitError for the item the loop is
\* at, the step records a failed run for the item, puts the item back to
\* backlog, adds no pull request and no review, adds nothing to the cycle's
\* lists and goes on to the next selected item; the cycle does not raise
\* because of it: a cycle that raised left its item in in_progress.
C28_GitFailureOneItem ==
    [][/\ (AtItem /\ item_idx' = item_idx + 1
            /\ run_item(TRUE, FALSE, TRUE, "error", "error", TRUE)) =>
              LET id == backlog_items[item_idx]
              IN /\ db'.agent_runs =
                        Append(db.agent_runs, [work_item_id |-> id, status |-> "failed",
                                               tests_passed |-> FALSE])
                 /\ db'.work_items[id].status = "backlog"
                 /\ db'.pull_requests = db.pull_requests
                 /\ db'.reviews = db.reviews
                 /\ cycle_created_prs' = cycle_created_prs
                 /\ cycle_merged_pr_ids' = cycle_merged_pr_ids
                 /\ cpc' = "loop"
                 /\ committed' = committed
       /\ (AtItem /\ cpc' = "raised") =>
              /\ db'.work_items[backlog_items[item_idx]].status = "in_progress"
              /\ db'.agent_runs = db.agent_runs]_vars

\* the first selected item's commit failed and the second went through: the
\* job is reported completed with one pull request, the first item is in
\* backlog with a failed run
C28_Witness ==
    /\ Len(backlog_items) = 2
    /\ cycle_report.kind = "completed"
    /\ cycle_report.created_prs = 1
    /\ db.work_items[backlog_items[1]].status = "backlog"
    /\ \E r \in RowsOf("agent_runs", backlog_items[1]) :
           db.agent_runs[r].status = "failed"
    /\ RowsOf("pull_requests", backlog_items[1]) = {}
    /\ RowsOf("pull_requests", backlog_items[2]) # {}
    /\ committed = db

\* C29 (as claimed): the mutations of a cycle become durable together, at
\* its final commit: once run_autopilot_cycle has raised, nothing the cycle
\* did to work items, runs, pull requests, reviews or events is committed,
\* whether the caller is the request handler or the worker reporting
\* mark_failed on the cycle's session.
C29_Original ==
    [][cpc = "raised" => committed' = committed]_vars

\* caller c is inside a git sequence: it holds the lock and runs git commands
InSequence(c) == gpc[c] \in {"prepare", "body", "unlock"}

\* C30: no two callers are inside a git sequence (prepare_workspace,
\* commit_agent_change or merge_branch) of the same project at the same
\* time; the locks of different projects are different files, so a caller
\* waiting for a project's lock gets it whenever no sequence of that project
\* runs, whatever runs on other projects.
C30_ProjectLock ==
    /\ \A c1, c2 \in GitCallers :
           (c1 # c2 /\ InSequence(c1) /\ InSequence(c2)) =>
               gcall[c1].project_id # gcall[c2].project_id
    /\ \A c \in GitCallers :
           (/\ gpc[c] = "flock"
            /\ \A c2 \in GitCallers \ {c} :
                   InSequence(c2) => gcall[c2].project_id # gcall[c].project_id) =>
               ENABLED git_flock(c)
    /\ \A p1, p2 \in ProjectIds : p1 # p2 => lock_path(p1) # lock_path(p2)

\* a caller is in the middle of commit_agent_change on a project and another
\* caller waits for the lock to merge a branch of the same project
C30_Witness ==
    \E c1, c2 \in GitCallers :
        /\ gpc[c1] = "body"
        /\ gcall[c1].op = "commit_agent_change"
        /\ gpc[c2] = "flock"
        /\ gcall[c2].op = "merge_branch"
        /\ gcall[c2].project_id = gcall[c1].project_id

C38_Original ==
    cpc = "reported" =>
        \A i \in Elems(backlog_items) :
            committed.work_items[i].status \in {"done", "review", "backlog"}

HoldsLock(c) == \E l \in flock : l.holder = c

\* C37: the project lock is held exactly while its holder is inside a git
\* sequence, and a live caller inside a sequence leaves it and gives the
\* lock up, whether the sequence returns or raises GitError at any step; a
\* caller waiting for the lock of a project is granted it in any state in
\* which no sequence of the project runs.
C37_LockReleased ==
    /\ [](\A c \in GitCallers : HoldsLock(c) <=> InSequence(c))
    /\ [](\A c \in GitCallers :
             (/\ gpc[c] = "flock"
              /\ \A c2 \in GitCallers \ {c} :
                     gcall[c2].project_id = gcall[c].project_id => ~InSequence(c2)) =>
                 ENABLED git_flock(c))
    /\ \A c \in GitCallers :
           (InSequence(c) /\ gcall[c].raised) ~> (gpc[c] = "idle" /\ ~HoldsLock(c))
    /\ \A c \in GitCallers :
           InSequence(c) ~> (gpc[c] = "idle" /\ ~HoldsLock(c))

\* merge_branch raised for one caller, which is about to leave _project_lock,
\* while another caller waits for the same project's lock to commit
C37_Witness ==
    \E c1, c2 \in GitCallers :
        /\ gpc[c1] = "unlock"
        /\ gcall[c1].op = "merge_branch"
        /\ gcall[c1].raised
        /\ gpc[c2] = "flock"
        /\ gcall[c2].op = "commit_agent_change"
        /\ gcall[c2].project_id = gcall[c1].project_id

RunAttempts == attempts_of(run_args.command_retries)

\* the last execution failed with a non-zero exit status that _run checks
RunFailed == run_out.kind = "nonzero" /\ run_args.check

\* C32: a call of the command wrapper executes the command at most
\* max(command_retries + 1, 1) times and ends with a result or a GitError;
\* a checked failure whose output has no transient marker raises at once,
\* after exactly one execution when it is the first; a transient failure or
\* a timeout is followed by another execution while attempts are left and
\* raises when they are used up; a result is returned only for exit status
\* 0 or an unchecked command.
C32_RunBounded ==
    /\ [](attempt <= RunAttempts)
    /\ [](run_pc = "loop" => attempt < RunAttempts)
    /\ (run_pc = "loop") ~> (run_pc \in {"returned", "raised"})
    /\ [](run_pc = "returned" => run_out.kind = "exit0" \/ ~run_args.check)
    /\ [](run_pc = "raised" =>
             /\ run_out.kind = "timeout" \/ RunFailed
             /\ (RunFailed /\ ~is_transient_error(output_of(run_out)))
                    \/ attempt = RunAttempts)
    /\ [](run_pc = "loop" /\ attempt > 0 =>
             run_out.kind = "timeout"
                \/ (RunFailed /\ is_transient_error(output_of(run_out))))
    /\ [][(attempt = 0 /\ attempt' = 1 /\ RunFailed'
              /\ ~is_transient_error(output_of(run_out'))) =>
                (run_pc' = "raised")]_vars

\* with two retries the command failed twice on a transient error and the
\* third execution failed on another error: GitError after three executions
C32_Witness ==
    /\ run_pc = "raised"
    /\ run_args.command_retries = 2
    /\ attempt = 3
    /\ RunFailed
    /\ ~is_transient_error(output_of(run_out))
    /\ run_out.stdout = <<"error: could not lock ", "index.lock", ": File exists">>

\* C33: bootstrap on a project without agents leaves exactly one active
\* agent for each of the four roles; on a project with any agent it adds
\* none and returns the agents there are; a second bootstrap changes
\* nothing.
C33_BootstrapIdempotent ==
    /\ bootstrap_roster(bootstrap_roster(roster)) = bootstrap_roster(roster)
    /\ roster = <<>> =>
           /\ Len(bootstrap_roster(roster)) = Cardinality(AgentRole)
           /\ \A r \in AgentRole :
                  Cardinality({i \in 1..Len(bootstrap_roster(roster)) :
                                  bootstrap_roster(roster)[i].role = r}) = 1
    /\ roster # <<>> => bootstrap_roster(roster) = roster
    /\ last_op.op = "bootstrap" =>
           /\ last_op.ret = roster
           /\ bootstrap_roster(roster) = roster

\* bootstrap returned the one paused agent of a project that has no tester
C33_Witness ==
    /\ last_op.op = "bootstrap"
    /\ Len(roster) = 1
    /\ roster[1] = [role |-> "coder", status |-> "paused"]

\* C34 as stated: after bootstrap has returned, the project has its policy
\* row, also when it had agents and no policy row before the call.
C34_Original ==
    last_op.op = "bootstrap" => Len(project_policy) = 1

\* C35 as stated: the items created from an objective are at most
\* max_work_items, all in backlog, with strictly increasing priority in
\* segment order, and one item with the whole text when auto_triage is off.
C35_Original ==
    last_op.op = "objective" =>
        /\ Len(last_op.ret) <= last_op.max_work_items
        /\ \A i \in 1..Len(last_op.ret) : last_op.ret[i].status = "backlog"
        /\ \A i, k \in 1..Len(last_op.ret) :
               i < k => /\ last_op.ret[i].priority < last_op.ret[k].priority
                        /\ last_op.ret[i].segment.piece < last_op.ret[k].segment.piece
        /\ ~last_op.auto_triage => last_op.ret = <<objective_item(Whole, 1)>>

\* C35: the items created from an objective are at least one and at most
\* max_work_items, all in backlog and in segment order; item number idx has
\* priority min(idx, 5), strictly increasing over the first five items and
\* equal from the fifth on; with auto_triage off there is one item with the
\* whole text.
C35_PriorityCapped ==
    last_op.op = "objective" =>
        /\ Len(last_op.ret) \in 1..last_op.max_work_items
        /\ \A i \in 1..Len(last_op.ret) :
               /\ last_op.ret[i].status = "backlog"
               /\ last_op.ret[i].priority = Min(i, PriorityCap)
        /\ \A i, k \in 1..Len(last_op.ret) :
               i < k => /\ last_op.ret[i].priority <= last_op.ret[k].priority
                        /\ k <= PriorityCap =>
                               last_op.ret[i].priority < last_op.ret[k].priority
                        /\ last_op.ret[i].segment.piece < last_op.ret[k].segment.piece
        /\ ~last_op.auto_triage => last_op.ret = <<objective_item(Whole, 1)>>

\* six items were created and the last two have the same priority
C35_Witness ==
    /\ last_op.op = "objective"
    /\ Len(last_op.ret) = 6
    /\ last_op.ret[5].priority = last_op.ret[6].priority

C36_MergeLeavesDefault ==
    /\ (ws_ret.op = "merge_branch" /\ ws_ret.result = "returned") =>
           /\ repo.head = DefaultBranch
           /\ repo.refs[ws_ret.branch_name] # {}
           /\ repo.refs[ws_ret.branch_name] \subseteq repo.refs[DefaultBranch]
    /\ (cpc = "reported" /\ \E c \in merge_calls : c.ok) =>
           /\ cycle_report.kind = "completed"
           /\ cycle_report.processed_items = 1
           /\ cycle_report.created_prs = 1
           /\ cycle_report.merged_prs = 1
           /\ committed.pull_requests[1].status = "merged"
           /\ repo.head = DefaultBranch
           /\ repo.refs[1] \subseteq repo.refs[DefaultBranch]

\* the job is reported completed with one merged pull request after a merge
\* that could not be fast-forwarded: the default branch holds the commit
\* pulled from origin, the item's commit and the merge commit
C36_Witness ==
    /\ cpc = "reported"
    /\ cycle_report.kind = "completed"
    /\ cycle_report.merged_prs = 1
    /\ ws_ret.op = "merge_branch"
    /\ ws_ret.result = "returned"
    /\ ws_ret.commits = 1
    /\ repo.head = DefaultBranch
    /\ repo.refs[DefaultBranch] = {RemoteCommit, 0, 1, 2}
    /\ repo.refs[1] = {0, 1}

PullRequestsOf(id) ==
    {k \in 1..Len(cc_table.pull_requests) : cc_table.pull_requests[k].work_item_id = id}

\* C39 as stated: with concurrent cycles on one project, every work item
\* has at most one pull request and is merged at most once.
C39_Original ==
    \A id \in 1..Len(cc_table.work_items) :
        /\ Cardinality(PullRequestsOf(id)) <= 1
        /\ Cardinality({k \in PullRequestsOf(id) :
                            cc_table.pull_requests[k].status = "merged"}) <= 1

====
